---- MODULE Spec2Model ----
(***************************************************************************)
(* Predator: Badlands -- a model of the decision-and-resolution loop.      *)
(*                                                                         *)
(* The module holds several specifications over one set of variables:     *)
(*   SpecHonour  the reputation economy (mechanics/honour.py) driven by    *)
(*               arbitrary update_honour calls on one combatant;           *)
(*   SpecBoss    the adaptive boss taking turns (decide_action then        *)
(*               execute_action, as run_turn calls them) against an        *)
(*               opponent next to its spawn cell, and being damaged;       *)
(*   SpecCircle  the adaptive boss, boxed in by obstacles, taking turns    *)
(*               against an opponent seen at varying positions;            *)
(*   SpecHitRun  the adaptive boss taking turns against an opponent that   *)
(*               strikes it from the next cell and is then seen next to   *)
(*               it or three cells away;                                   *)
(*   SpecLearner the learning fields of the Q-learning predator under any  *)
(*               sequence of decide_action, update_q_value and             *)
(*               decay_epsilon calls;                                      *)
(*   SpecChase   the adaptive boss taking turns against an opponent seen   *)
(*               next to it or at one of two fixed cells, never struck;    *)
(*   SpecReward  decide_action calls on the Q-learning predator and        *)
(*               _calculate_reward applied to it;                          *)
(*   SpecCombat  CombatSystem.resolve_combat and clan_challenge on two     *)
(*               combatants of any class;                                  *)
(*   SpecRun     run(max_turns) of main.py over a roster of Dek, Thia, the *)
(*               boss, one creature and one clan member, one step per      *)
(*               iteration of run_turn's loop; SpecRunFair adds the        *)
(*               fairness under which the loop of run makes progress;      *)
(*   SpecTrappedRun  run(max_turns) with the Q-learning predator over a    *)
(*               grid with pits stacked on its way and on the boss's.      *)
(* Each specification leaves the variables of the others parked at their   *)
(* constructed values.                                                     *)
(***************************************************************************)
EXTENDS Integers, Sequences, FiniteSets, TLC

VARIABLES
    honour,        \* Predator.honour of the combatant under update
    clan_rank,     \* Predator.clan_rank of the same combatant
    hon_last,      \* the last update_honour call: its action, return value and prior honour
    boss,          \* the AdaptiveAdversary object (all its fields)
    boss_obs,      \* what the boss's last turn was given and returned (observation only)
    obstacles,     \* the cells whose terrain_type is 'obstacle'
    agents,        \* the other agents of the roster, by name (all their fields)
    roster,        \* Grid.agents: the names of the agents on the grid, in order
    turn,          \* PredatorBadlandsSimulation.turn
    running,       \* PredatorBadlandsSimulation.running
    max_turns,     \* the argument of run
    loop,          \* where run and run_turn stand, and what this tick's loop has done
    hazards,       \* HazardManager: the active traps and the weather
    learner,       \* a QLearningPredator: its learning fields (table, last_*, epsilon, counters)
    learner_obs,   \* what the learner's calls were given and returned (observation only)
    duel,          \* two combatants (all their fields) and the result of the last
                   \* CombatSystem call on them
    field          \* where the two combatants stand on the grid, and the last
                   \* execute_action call made on one of them

honourVars == <<honour, clan_rank, hon_last>>

bossVars == <<boss, boss_obs, obstacles>>

runVars == <<agents, roster, turn, running, max_turns, loop, hazards>>

learnerVars == <<learner, learner_obs>>

duelVars == <<duel>>

fieldVars == <<field>>

vars == <<honour, clan_rank, hon_last, boss, boss_obs, obstacles,
          agents, roster, turn, running, max_turns, loop, hazards,
          learner, learner_obs, duel, field>>

(***************************************************************************)
(* Arithmetic helpers                                                      *)
(***************************************************************************)
Max(a, b) == IF a >= b THEN a ELSE b

Min(a, b) == IF a <= b THEN a ELSE b

Abs(a) == IF a >= 0 THEN a ELSE -a

\* Python int(n / d) for a rational n / d with d > 0: truncation toward zero.
IntTrunc(n, d) == IF n >= 0 THEN n \div d ELSE -((-n) \div d)

(***************************************************************************)
(* Bounds of the model                                                     *)
(***************************************************************************)
\* update_honour is not called once honour has reached this ceiling
MaxHonour == 200

\* the grid (GRID_WIDTH, GRID_HEIGHT of the configuration)
GridW == 7

\* the boss takes at most this many turns (SpecBoss, SpecCircle)
MaxBossTurns == 8

MaxCircleTurns == 12

\* the opponent is seen at the far cell at most this many times (SpecCircle)
MaxOutliers == 1

\* no call reaches the boss once it has counted this many attacks
MaxAttacked == 22

GridH == 7

\* the argument of run (SpecRun), and its value in the runs that have a clan
\* member on the grid
MaxTurns == 6

\* SpecTrappedRun: the pits on the one trapped cell of the learner's way, and
\* those on the one of the boss's patrol route
LearnerPits == 4

BeastPits == 2

ClanTurns == 2

\* SpecHitRun: decisions of the boss, and exchanges recorded
MaxHitRunTurns == 9

MaxExchanges == 6

\* SpecLearner: calls on the learner, and decay_epsilon calls among them
MaxLearnerCalls == 3

MaxDecays == 3

\* SpecCombat: CombatSystem calls on the two combatants
MaxRounds == 3

\* SpecField: the execute_action calls made on the two combatants
MaxFieldSteps == 3

\* the configuration of the run (SpecRun): DEK_INITIAL_HEALTH,
\* DEK_INITIAL_STAMINA and ADVERSARY_INITIAL_HEALTH
DekInitialHealth == 100

DekInitialStamina == 50

AdversaryInitialHealth == 250

(***************************************************************************)
(* mechanics/honour.py -- HonourSystem                                     *)
(***************************************************************************)
RankNames == <<"Unblooded", "Blooded", "Honoured", "Elite", "Ancient">>

RANKS ==
    [r \in {"Unblooded", "Blooded", "Honoured", "Elite", "Ancient"} |->
        CASE r = "Unblooded" -> 0
          [] r = "Blooded"   -> 30
          [] r = "Honoured"  -> 60
          [] r = "Elite"     -> 100
          [] r = "Ancient"   -> 150]

KnownActions ==
    {"hunt_worthy_prey", "hunt_unworthy_prey", "defeat_adversary",
     "successful_challenge", "failed_challenge", "retreat_from_combat",
     "help_wounded", "trophy_collected", "dishonourable_kill",
     "win_clan_challenge", "lose_clan_challenge", "spare_worthy_opponent",
     "fight_alongside_ally"}

\* HONOUR_VALUES.get(action, 0)
HONOUR_VALUES(action) ==
    CASE action = "hunt_worthy_prey"      -> 15
      [] action = "hunt_unworthy_prey"    -> -30
      [] action = "defeat_adversary"      -> 100
      [] action = "successful_challenge"  -> 10
      [] action = "failed_challenge"      -> -5
      [] action = "retreat_from_combat"   -> -10
      [] action = "help_wounded"          -> 5
      [] action = "trophy_collected"      -> 10
      [] action = "dishonourable_kill"    -> -50
      [] action = "win_clan_challenge"    -> 15
      [] action = "lose_clan_challenge"   -> -5
      [] action = "spare_worthy_opponent" -> 20
      [] action = "fight_alongside_ally"  -> 5
      [] OTHER -> 0

(* A context dictionary.  target is the class name of context['target'] or  *)
(* "none" when the key is absent; threat is the target's threat_level;      *)
(* health and opp are context['health'] and context['opponent_honour'],     *)
(* -1 standing for an absent key.  EmptyCtx is None or {} (both falsy).     *)
EmptyCtx == [target |-> "none", threat |-> 0, health |-> -1, opp |-> -1]

CtxIsEmpty(ctx) == ctx.target = "none" /\ ctx.health = -1 /\ ctx.opp = -1

TargetCtx(cls, threat) == [target |-> cls, threat |-> threat, health |-> -1, opp |-> -1]

\* the honour of worthy wildlife: 15 + (target.threat_level * 5)
worthy_prey_honour_flat(threat) == 15

worthy_prey_honour(threat) == 15 + (threat * 5)

\* HonourSystem._apply_context
apply_context(base_honour, action, ctx) ==
    IF action = "hunt_worthy_prey" /\ ctx.target # "none"
    THEN IF ctx.target = "Wildlife"
         THEN IF ctx.threat >= 1 THEN worthy_prey_honour(ctx.threat) ELSE -30
         ELSE IF ctx.target \in {"Adversary", "AdaptiveAdversary"}
              THEN 100
              ELSE 15
    ELSE LET h1 == IF action = "retreat_from_combat"
                      /\ (IF ctx.health = -1 THEN 100 ELSE ctx.health) < 20
                   THEN IntTrunc(base_honour, 2)
                   ELSE base_honour
             h2 == IF action \in {"successful_challenge", "failed_challenge"}
                      /\ (IF ctx.opp = -1 THEN 50 ELSE ctx.opp) > 70
                   THEN IntTrunc(3 * h1, 2)
                   ELSE h1
         IN h2

\* honour_change of update_honour: the table value, adjusted by a non-empty context
honour_change(action, ctx) ==
    IF CtxIsEmpty(ctx)
    THEN HONOUR_VALUES(action)
    ELSE apply_context(HONOUR_VALUES(action), action, ctx)

\* predator.honour after `predator.honour += honour_change; max(0, ...)`
ClampHonourNoFloor(h) == h

ClampHonour(h) == Max(0, h)

\* HonourSystem.get_rank: the last rank of the table whose threshold is <= honour
get_rank(h) ==
    LET ok == {i \in 1..Len(RankNames) : h >= RANKS[RankNames[i]]}
    IN IF ok = {} THEN "Unblooded"
       ELSE RankNames[CHOOSE i \in ok : \A j \in ok : j <= i]

\* The fields of the predator that update_honour writes: honour only.  The
\* ranks it computes (old_rank, new_rank) are local and are only announced.
update_honour_fields(h, rank, action, ctx) ==
    [honour |-> ClampHonour(h + honour_change(action, ctx)), clan_rank |-> rank]

\* the wound check of validate_hunt: target.health < target.max_health * 0.2
too_wounded(target) == 5 * target.health < target.max_health

\* HonourSystem.validate_hunt(predator, target): 'honourable' and 'violations'
validate_hunt(predator, target) ==
    LET unworthy == target.cls = "Wildlife" /\ ~(target.threat_level >= 1)
        v1 == IF unworthy THEN <<"unworthy">> ELSE << >>
        v2 == IF too_wounded(target) THEN <<"too_wounded">> ELSE << >>
    IN [honourable |-> ~unworthy /\ ~too_wounded(target), violations |-> v1 \o v2]

(***************************************************************************)
(* environment/grid.py -- the part of Grid the movers use                   *)
(***************************************************************************)
\* Python's % on a positive modulus: the result is in 0..m-1 (as TLA+'s %)
WrapPos(p) == <<p[1] % GridW, p[2] % GridH>>

\* Grid.is_valid_position of an already wrapped position: in bounds and passable
is_valid_position(p, obst) ==
    /\ 0 <= p[1] /\ p[1] < GridW
    /\ 0 <= p[2] /\ p[2] < GridH
    /\ p \notin obst

manhattan_distance(p, q) == Abs(p[1] - q[1]) + Abs(p[2] - q[2])

\* the moves dictionary of Adversary._execute_move; an unknown direction stays
MoveTarget(p, dir) ==
    CASE dir = "N"  -> <<p[1], p[2] - 1>>
      [] dir = "S"  -> <<p[1], p[2] + 1>>
      [] dir = "E"  -> <<p[1] + 1, p[2]>>
      [] dir = "W"  -> <<p[1] - 1, p[2]>>
      [] dir = "NE" -> <<p[1] + 1, p[2] - 1>>
      [] dir = "NW" -> <<p[1] - 1, p[2] - 1>>
      [] dir = "SE" -> <<p[1] + 1, p[2] + 1>>
      [] dir = "SW" -> <<p[1] - 1, p[2] + 1>>
      [] OTHER -> p

\* _execute_move: wrap the destination, move only when it is valid
MovedPosition(p, dir, obst) ==
    LET w == WrapPos(MoveTarget(p, dir))
    IN IF is_valid_position(w, obst) THEN w ELSE p

(***************************************************************************)
(* agents/adversary.py and agents/adaptive_adversary.py -- the boss         *)
(***************************************************************************)
NoPos == <<-1, -1>>

\* Adversary._generate_patrol_route: a square around the territory centre
PatrolRoute(c) ==
    << <<c[1] - 2, c[2] - 2>>, <<c[1] + 2, c[2] - 2>>,
       <<c[1] + 2, c[2] + 2>>, <<c[1] - 2, c[2] + 2>> >>

\* AdaptiveAdversary.__init__ (over Adversary.__init__ and BaseAgent.__init__)
NewAdaptiveAdversary(pos, hp, radius) ==
    [position |-> pos, health |-> hp, max_health |-> hp, is_alive |-> TRUE,
     threat_radius |-> radius, territory_center |-> pos,
     aggression_level |-> 5, attack_power |-> 30,
     defended_successfully |-> 0, times_attacked |-> 0,
     movement_pattern |-> "patrol", current_patrol_index |-> 0,
     attack_pattern_memory |-> << >>,
     predator_position_history |-> << >>,
     chase_aggressiveness |-> 10,          \* in tenths: 1.0
     circle_strategy |-> 0, hit_and_run |-> 0,
     berserker_rage |-> FALSE, predictive_movement |-> FALSE,
     area_denial |-> FALSE, adaptive_armor |-> FALSE,
     total_damage_received |-> 0, combat_encounters |-> 0]

\* a deque(maxlen = n) after append
DequeAppend(s, e, n) ==
    LET t == Append(s, e)
    IN IF Len(t) > n THEN SubSeq(t, Len(t) - n + 1, Len(t)) ELSE t

LastN(s, n) == IF Len(s) > n THEN SubSeq(s, Len(s) - n + 1, Len(s)) ELSE s

\* Adversary._calculate_direction
calculate_direction(from, to) ==
    LET dx == to[1] - from[1]
        dy == to[2] - from[2]
    IN IF Abs(dx) > Abs(dy) THEN (IF dx > 0 THEN "E" ELSE "W")
       ELSE IF Abs(dy) > Abs(dx) THEN (IF dy > 0 THEN "S" ELSE "N")
       ELSE IF dx > 0 /\ dy > 0 THEN "SE"
       ELSE IF dx > 0 /\ dy < 0 THEN "NE"
       ELSE IF dx < 0 /\ dy > 0 THEN "SW"
       ELSE "NW"

\* AdaptiveAdversary._calculate_aggressive_direction
calculate_aggressive_direction(from, to) ==
    LET dx == to[1] - from[1]
        dy == to[2] - from[2]
    IN IF Abs(dx) > 0 /\ Abs(dy) > 0
       THEN IF dx > 0 /\ dy > 0 THEN "SE"
            ELSE IF dx > 0 /\ dy < 0 THEN "NE"
            ELSE IF dx < 0 /\ dy > 0 THEN "SW"
            ELSE "NW"
       ELSE calculate_direction(from, to)

\* the unlock of one ability: set once its threshold is met, never cleared
UnlockStoringGuard(flag, met) == met /\ ~flag

Unlock(flag, met) == flag \/ met

\* the threat radius after the Area Denial unlock
AreaDenialRadius(r) == r + 3

\* AdaptiveAdversary._update_combat_intelligence
\* the chase_aggressiveness (in tenths) after the adjustment that closes
\* _update_combat_intelligence; success_rate > 0.7 <=> 10 * defended > 7 * attacked
tune_chase_unbounded(c, defended, attacked) ==
    IF attacked > 5
    THEN IF 10 * defended > 7 * attacked THEN c + 1
         ELSE IF 10 * defended < 3 * attacked THEN c - 1
         ELSE c
    ELSE c

tune_chase(c, defended, attacked) ==
    IF attacked > 5
    THEN IF 10 * defended > 7 * attacked THEN Min(15, c + 1)
         ELSE IF 10 * defended < 3 * attacked THEN Max(7, c - 1)
         ELSE c
    ELSE c

update_combat_intelligence(b) ==
    LET denial == b.times_attacked >= 20 /\ ~b.area_denial
    IN [b EXCEPT
          !.berserker_rage = Unlock(@, b.times_attacked >= 10),
          !.predictive_movement = Unlock(@, b.times_attacked >= 15),
          !.area_denial = Unlock(@, b.times_attacked >= 20),
          !.threat_radius = IF denial THEN AreaDenialRadius(@) ELSE @,
          !.adaptive_armor = Unlock(@, b.total_damage_received >= 200),
          !.chase_aggressiveness =
              tune_chase(@, b.defended_successfully, b.times_attacked)]

\* sum over h[i..Len(h)] of the distance from pos (sq: of its square)
RECURSIVE DistanceSum(_, _, _, _)
DistanceSum(pos, h, i, sq) ==
    IF i > Len(h) THEN 0
    ELSE LET d == manhattan_distance(pos, h[i])
         IN (IF sq THEN d * d ELSE d) + DistanceSum(pos, h, i + 1, sq)

\* the condition of _detect_circle_strategy on the last 10 recorded positions:
\* variance of the distances < 4 and 3 < mean < 7, in integers (n = 10):
\*   variance < 4  <=>  10 * sum(d^2) - sum(d)^2 < 400
\*   3 < mean < 7  <=>  30 < sum(d) < 70
CirclingSeen(b) ==
    LET h  == b.predator_position_history
        s1 == DistanceSum(b.position, h, Len(h) - 9, FALSE)
        s2 == DistanceSum(b.position, h, Len(h) - 9, TRUE)
    IN /\ Len(h) >= 10
       /\ 10 * s2 - s1 * s1 < 400
       /\ 30 < s1 /\ s1 < 70

\* AdaptiveAdversary._detect_circle_strategy: the counter after the call
detect_circle_counter(b) ==
    IF CirclingSeen(b) THEN b.circle_strategy + 1 ELSE b.circle_strategy

\* AdaptiveAdversary._detect_circle_strategy: its answer
detect_circle_strategy_early(b) ==
    CirclingSeen(b) /\ detect_circle_counter(b) >= 2

detect_circle_strategy(b) ==
    CirclingSeen(b) /\ detect_circle_counter(b) >= 3

\* the condition of _detect_hit_and_run on the last 5 recorded attacks
HitAndRunSeenInTheField(b) ==
    LET recent == LastN(boss_obs.retreats, 5)
    IN /\ Len(b.attack_pattern_memory) >= 5
       /\ Cardinality({i \in 1..Len(recent) : recent[i] = "yes"}) >= 3

HitAndRunSeen(b) ==
    LET recent == LastN(b.attack_pattern_memory, 5)
    IN /\ Len(b.attack_pattern_memory) >= 5
       /\ Cardinality({i \in 1..Len(recent) : recent[i].retreated}) >= 3

detect_hit_and_run_counter(b) ==
    IF HitAndRunSeen(b) THEN b.hit_and_run + 1 ELSE b.hit_and_run

detect_hit_and_run(b) ==
    HitAndRunSeen(b) /\ detect_hit_and_run_counter(b) >= 2

\* AdaptiveAdversary._predict_next_position: NoPos stands for None
predict_next_position(b, target) ==
    LET h == b.predator_position_history
        n == Len(h)
    IN IF n < 3 THEN NoPos
       ELSE <<target[1] + (h[n][1] - h[n - 2][1]),
              target[2] + (h[n][2] - h[n - 2][2])>>

MoveAction(dir, branch) == [type |-> "move", direction |-> dir, branch |-> branch]

AttackAction(branch) == [type |-> "attack", direction |-> "-", branch |-> branch]

NoAction == [type |-> "none", direction |-> "-", branch |-> "none"]

\* AdaptiveAdversary._counter_circle_strategy
counter_circle_strategy(b, target) ==
    LET predicted == predict_next_position(b, target)
    IN IF predicted # NoPos
       THEN MoveAction(calculate_direction(b.position, predicted), "counter_circle")
       ELSE MoveAction(calculate_direction(b.position, target), "counter_circle")

\* AdaptiveAdversary._predictive_attack
predictive_attack(b, target) ==
    LET predicted == predict_next_position(b, target)
    IN IF predicted # NoPos /\ manhattan_distance(b.position, predicted) <= 2
       THEN MoveAction(calculate_direction(b.position, predicted), "predictive")
       ELSE AttackAction("predictive")

\* the attack power after one Berserker activation: int(attack_power * 1.5)
BerserkerPower(p) == IntTrunc(3 * p, 2)

\* AdaptiveAdversary._get_adaptive_patrol_direction: the boss with its next
\* waypoint index and the direction; jitter is random.random() < 0.3 and
\* idx the random.randint(0, 3) drawn in that case
adaptive_patrol(b, jitter, idx) ==
    LET route == PatrolRoute(b.territory_center)
        at == b.position = route[b.current_patrol_index + 1]
        ni == IF at
              THEN (IF jitter THEN idx ELSE (b.current_patrol_index + 1) % 4)
              ELSE b.current_patrol_index
    IN [boss |-> [b EXCEPT !.current_patrol_index = ni, !.movement_pattern = "patrol"],
        action |-> MoveAction(calculate_direction(b.position, route[ni + 1]), "patrol")]

\* the chase test of decide_action: distance <= threat_radius *
\* chase_aggressiveness, the multiplier being held in tenths
in_chase_range_plain(distance, radius, aggressiveness) == distance <= radius

in_chase_range(distance, radius, aggressiveness) ==
    10 * distance <= radius * aggressiveness

\* AdaptiveAdversary.decide_action.  target is the position of the nearest
\* agent of class Predator (NoPos: there is none); the result is the boss
\* after the call and the action returned.
adaptive_decide(b0, target, jitter, idx) ==
    LET b1 == update_combat_intelligence(b0)
        b2 == [b1 EXCEPT !.predator_position_history = DequeAppend(@, target, 30)]
        distance == manhattan_distance(b2.position, target)
        b3 == [b2 EXCEPT !.circle_strategy = detect_circle_counter(b2)]
        b4 == [b3 EXCEPT !.hit_and_run = detect_hit_and_run_counter(b3)]
    IN IF target = NoPos THEN adaptive_patrol(b1, jitter, idx)
       ELSE IF detect_circle_strategy(b2)
       THEN [boss |-> b3, action |-> counter_circle_strategy(b3, target)]
       ELSE IF detect_hit_and_run(b3)
       THEN [boss |-> [b4 EXCEPT !.threat_radius = Min(15, @ + 2)],
             action |-> IF distance <= 2
                        THEN AttackAction("counter_hit_run")
                        ELSE MoveAction(calculate_aggressive_direction(b4.position, target),
                                        "counter_hit_run")]
       ELSE IF b4.berserker_rage /\ b4.health < 200
       THEN [boss |-> [b4 EXCEPT !.attack_power = BerserkerPower(@)],
             action |-> AttackAction("berserker")]
       ELSE IF b4.predictive_movement
       THEN [boss |-> b4, action |-> predictive_attack(b4, target)]
       ELSE IF distance <= 1
       THEN [boss |-> [b4 EXCEPT !.combat_encounters = @ + 1],
             action |-> AttackAction("attack")]
       ELSE IF in_chase_range(distance, b4.threat_radius, b4.chase_aggressiveness)
       THEN [boss |-> [b4 EXCEPT !.movement_pattern = "chase"],
             action |-> MoveAction(calculate_direction(b4.position, target), "chase")]
       ELSE adaptive_patrol(b4, jitter, idx)

\* Adversary.execute_action: the boss after its own action (the damage dealt
\* to the target of an attack is applied by the caller)
AttackLands(b, action, target) ==
    action.type = "attack" /\ target # NoPos /\ manhattan_distance(b.position, target) <= 1

adversary_execute(b, action, target, obst) ==
    IF action.type = "move"
    THEN [b EXCEPT !.position = MovedPosition(b.position, action.direction, obst)]
    ELSE IF AttackLands(b, action, target)
    THEN [b EXCEPT !.times_attacked = @ + 1]
    ELSE b

\* the radius after a survived hit: min(10, threat_radius + 1)
WoundedRadius(r) == Min(10, r + 1)

\* Adversary.take_damage over BaseAgent.take_damage
adversary_take_damage(b, damage) ==
    LET h == b.health - damage
        dead == h <= 0
        b1 == [b EXCEPT !.health = IF dead THEN 0 ELSE h,
                        !.is_alive = IF dead THEN FALSE ELSE @,
                        !.times_attacked = @ + 1]
    IN IF b1.is_alive
       THEN [b1 EXCEPT !.defended_successfully = @ + 1,
                       !.aggression_level = Min(10, @ + 1),
                       !.threat_radius = WoundedRadius(@)]
       ELSE b1

\* AdaptiveAdversary.take_damage
armor_heal_in_full(actual) == actual

armor_heal(actual) == IntTrunc(actual, 10)

adaptive_take_damage(b, damage) ==
    LET b1 == adversary_take_damage(b, damage)
        actual == b.health - b1.health
        b2 == [b1 EXCEPT
                 !.total_damage_received = @ + actual,
                 !.attack_pattern_memory =
                     DequeAppend(@, [damage |-> actual, health_after |-> b1.health,
                                     retreated |-> FALSE], 20)]
    IN IF b2.adaptive_armor
       THEN [b2 EXCEPT !.health = Min(b2.max_health, @ + armor_heal(actual))]
       ELSE b2

(***************************************************************************)
(* agents/base_agent.py, predator.py, qlearning_predator.py, wildlife.py,   *)
(* synthetic.py -- the other agents of the roster                           *)
(***************************************************************************)
PredatorClasses == {"Predator", "QLearningPredator"}

\* Predator.__init__ / QLearningPredator.__init__ (max_health = health,
\* max_stamina = stamina)
NewPredator(cls, hp, st, dek) ==
    [cls |-> cls, health |-> hp, max_health |-> hp, is_alive |-> TRUE,
     stamina |-> st, max_stamina |-> st, is_dek |-> dek,
     threat_level |-> 0, attack_power |-> 0]

\* Wildlife.__init__: attack_power = 5 * threat_level; it has no stamina
NewWildlife(hp, tier) ==
    [cls |-> "Wildlife", health |-> hp, max_health |-> hp, is_alive |-> TRUE,
     stamina |-> 0, max_stamina |-> 0, is_dek |-> FALSE,
     threat_level |-> tier, attack_power |-> 5 * tier]

\* Synthetic.__init__: it has no stamina
NewSynthetic(hp) ==
    [cls |-> "Synthetic", health |-> hp, max_health |-> hp, is_alive |-> TRUE,
     stamina |-> 0, max_stamina |-> 0, is_dek |-> FALSE,
     threat_level |-> 0, attack_power |-> 0]

\* BaseAgent.take_damage
take_damage_keeping_alive(a, damage) ==
    LET h == a.health - damage
    IN IF h <= 0 THEN [a EXCEPT !.health = 0] ELSE [a EXCEPT !.health = h]

base_take_damage(a, damage) ==
    LET h == a.health - damage
    IN IF h <= 0 THEN [a EXCEPT !.health = 0, !.is_alive = FALSE]
       ELSE [a EXCEPT !.health = h]

\* stamina after a cost: max(0, stamina - cost)
SpendStaminaUnclamped(s, cost) == s - cost

SpendStamina(s, cost) == Max(0, s - cost)

\* Predator._execute_move, of the stamina (carrying_thia is never set in a run)
predator_execute_move(a) == [a EXCEPT !.stamina = SpendStamina(@, 2)]

\* Predator._execute_rest
predator_execute_rest(a) ==
    [a EXCEPT !.stamina = Min(@ + 15, a.max_stamina),
              !.health = Min(@ + 5, a.max_health)]

\* an action dictionary of these agents: its type and, for an attack, its target
Act(type, target) == [type |-> type, target |-> target]

\* Predator._dek_decision_logic.  adj is a living Wildlife or boss within
\* distance 1 ("none": there is none); every branch below the first two
\* returns a move when nothing is within distance 1.
dek_decision_logic(a, adj) ==
    IF adj # "none" /\ a.stamina >= 10 THEN Act("attack", adj)
    ELSE IF a.health < 30 THEN Act("rest", "none")
    ELSE Act("move", "none")

\* Predator._clan_decision_logic.  near_dek: Dek is on the grid within distance 3
clan_decision_logic(near_dek) ==
    IF near_dek THEN Act("challenge", "none") ELSE Act("move", "none")

\* Predator.decide_action
predator_decide(a, adj, near_dek) ==
    IF a.stamina < 20 THEN Act("rest", "none")
    ELSE IF a.is_dek THEN dek_decision_logic(a, adj)
    ELSE clan_decision_logic(near_dek)

\* QLearningPredator.decide_action: rest, a move, or an attack on a living
\* threat within distance 1; choice stands for the Q-table and the draws
qlearning_decide(a, choice, adj) ==
    IF choice = "attack" /\ adj # "none" THEN Act("attack", adj)
    ELSE IF choice = "move" THEN Act("move", "none")
    ELSE Act("rest", "none")

\* Wildlife.decide_action.  near is an agent of class Predator within
\* distance 1 ("none": there is none); roll is random.random() < 0.3
wildlife_decide(a, near, roll) ==
    IF a.health < 10 THEN Act("flee", "none")
    ELSE IF a.threat_level >= 2 /\ near # "none"
    THEN (IF roll THEN Act("attack", near) ELSE Act("move", "none"))
    ELSE Act("move", "none")

\* Synthetic.decide_action of the damaged, uncarried Thia
synthetic_decide(a) == Act("scan_area", "none")

(* A world is the agents and the boss together; the boss goes by the name   *)
(* "Beast".                                                                  *)
is_alive(w, n) == IF n = "Beast" THEN w.boss.is_alive ELSE w.agents[n].is_alive

health_of(w, n) == IF n = "Beast" THEN w.boss.health ELSE w.agents[n].health

class_of(w, n) == IF n = "Beast" THEN "AdaptiveAdversary" ELSE w.agents[n].cls

\* agent.take_damage(damage), by the class of the agent
take_damage(w, n, damage) ==
    IF n = "Beast" THEN [w EXCEPT !.boss = adaptive_take_damage(@, damage)]
    ELSE [w EXCEPT !.agents[n] = base_take_damage(@, damage)]

\* Grid.update of Grid.agents (rost): every agent that is not alive is removed
grid_update_keeping_all(w, rost) == rost

grid_update(w, rost) == SelectSeq(rost, LAMBDA n : is_alive(w, n))

(***************************************************************************)
(* mechanics/combat.py -- CombatSystem                                      *)
(***************************************************************************)
\* CombatSystem.resolve_combat with a Predator as attacker; damage is
\* final_damage (of _calculate_damage and the critical roll)
resolve_combat(w, attacker, defender, damage) ==
    IF ~is_alive(w, attacker) \/ ~is_alive(w, defender) THEN w
    ELSE IF w.agents[attacker].stamina < 10 THEN w
    ELSE take_damage([w EXCEPT !.agents[attacker].stamina = @ - 10],
                     defender, damage)

\* CombatSystem.clan_challenge between two Predators; challenger_wins is
\* challenger_score > challenged_score after the two random factors
clan_challenge(w, challenger, challenged, challenger_wins) ==
    IF class_of(w, challenger) \notin PredatorClasses
       \/ class_of(w, challenged) \notin PredatorClasses
    THEN w
    ELSE LET loser == IF challenger_wins THEN challenged ELSE challenger
             w1 == take_damage(w, loser, 15)
         IN [w1 EXCEPT !.agents[challenger].stamina = SpendStamina(@, 15),
                       !.agents[challenged].stamina = SpendStamina(@, 15)]

\* Predator.execute_action.  rost is Grid.agents; an attack's target is
\* within distance 1 (it was when the action was decided)
predator_execute(w, n, action, rost, damage, challenger_wins) ==
    CASE action.type = "move" -> [w EXCEPT !.agents[n] = predator_execute_move(@)]
      [] action.type = "rest" -> [w EXCEPT !.agents[n] = predator_execute_rest(@)]
      [] action.type = "attack" ->
            IF action.target # "none" /\ is_alive(w, action.target)
            THEN resolve_combat(w, n, action.target, damage)
            ELSE w
      [] action.type = "challenge" ->
            IF \E i \in 1..Len(rost) : rost[i] # "Beast" /\ w.agents[rost[i]].is_dek
            THEN clan_challenge(w, n,
                     rost[CHOOSE i \in 1..Len(rost) :
                            /\ rost[i] # "Beast" /\ w.agents[rost[i]].is_dek
                            /\ \A j \in 1..(i - 1) :
                                 rost[j] = "Beast" \/ ~w.agents[rost[j]].is_dek],
                     challenger_wins)
            ELSE w
      [] OTHER -> w

\* Wildlife.execute_action: an attack strikes its target without any check;
\* a move or a flight changes the position only
wildlife_execute(w, n, action) ==
    IF action.type = "attack" /\ action.target # "none"
    THEN take_damage(w, action.target, w.agents[n].attack_power)
    ELSE w

(***************************************************************************)
(* mechanics/combat.py -- CombatSystem on two combatants with all the       *)
(* fields it reads and writes (honour, trophies, stamina)                   *)
(***************************************************************************)
BossClasses == {"Adversary", "AdaptiveAdversary"}

\* a combatant of class cls: the fields of its __init__ that combat touches
\* (only a Predator or a QLearningPredator has stamina, honour and trophies;
\* they read 0 and << >> in the others and are never written there)
NewCombatant(cls, name, hp, st, hon, tier) ==
    [cls |-> cls, name |-> name, health |-> hp, max_health |-> hp, is_alive |-> TRUE,
     stamina |-> st, max_stamina |-> st, honour |-> hon, trophies |-> << >>,
     carrying_thia |-> FALSE, threat_level |-> tier,
     aggression_level |-> IF cls \in BossClasses THEN 5 ELSE 0,
     attack_power |-> IF cls \in BossClasses THEN 30 ELSE 5 * tier,
     threat_radius |-> 5, defended_successfully |-> 0, times_attacked |-> 0,
     total_damage_received |-> 0, attack_pattern_memory |-> << >>,
     adaptive_armor |-> FALSE]

\* defender.take_damage(damage), by the class of the combatant
combatant_take_damage(c, damage) ==
    CASE c.cls = "AdaptiveAdversary" -> adaptive_take_damage(c, damage)
      [] c.cls = "Adversary" -> adversary_take_damage(c, damage)
      [] OTHER -> base_take_damage(c, damage)

\* CombatSystem._calculate_damage, the attacker's bonuses: base_damage before
\* the defender's resistance
attacker_base_damage(attacker) ==
    CASE attacker.cls \in PredatorClasses ->
           (LET b == 20 + Min(15, attacker.honour \div 10)
            IN IF attacker.carrying_thia THEN IntTrunc(7 * b, 10) ELSE b)
      [] attacker.cls \in BossClasses -> 35 + attacker.aggression_level * 2
      [] attacker.cls = "Wildlife" -> 5 * attacker.threat_level
      [] OTHER -> 20

\* the defender's resistance: int(base_damage * 0.85) against a boss
resistance_none(b, defender) == b

resistance(b, defender) ==
    IF defender.cls \in BossClasses THEN IntTrunc(85 * b, 100) ELSE b

\* CombatSystem._calculate_damage up to the random factor
base_damage(attacker, defender) ==
    resistance(attacker_base_damage(attacker), defender)

\* the floor of _calculate_damage: max(1, final_damage)
FloorDamageAtZero(d) == Max(0, d)

FloorDamage(d) == Max(1, d)

\* CombatSystem._calculate_damage; variance is random.uniform(0.8, 1.2) in
\* hundredths
calculate_damage(attacker, defender, variance) ==
    FloorDamage(IntTrunc(base_damage(attacker, defender) * variance, 100))

\* HonourSystem.update_honour on a combatant (one without honour is left alone)
combatant_update_honour(c, action, ctx) ==
    IF c.cls \in PredatorClasses
    THEN [c EXCEPT !.honour = update_honour_fields(c.honour, "-", action, ctx).honour]
    ELSE c

\* `if hasattr(attacker, 'trophies'): attacker.trophies.append(...)`
collect_nothing(c, trophy) == c

collect_trophy(c, trophy) ==
    IF c.cls \in PredatorClasses THEN [c EXCEPT !.trophies = Append(@, trophy)] ELSE c

\* CombatSystem._award_honour_for_defeat: the attacker after it
award_honour_for_defeat(attacker, defender) ==
    CASE defender.cls = "Wildlife" ->
           (IF defender.threat_level >= 1
            THEN collect_trophy(
                     combatant_update_honour(attacker, "hunt_worthy_prey",
                         TargetCtx("Wildlife", defender.threat_level)),
                     defender.name)
            ELSE combatant_update_honour(attacker, "hunt_unworthy_prey",
                     TargetCtx("Wildlife", defender.threat_level)))
      [] defender.cls \in BossClasses ->
           collect_trophy(
               combatant_update_honour(attacker, "defeat_adversary",
                                       TargetCtx(defender.cls, 0)),
               "ULTIMATE_TROPHY_" \o defender.name)
      [] defender.cls = "Predator" ->
           combatant_update_honour(attacker, "successful_challenge",
               [target |-> "Predator", threat |-> 0, health |-> -1,
                opp |-> defender.honour])
      [] OTHER -> attacker

\* the result dictionary of a CombatSystem call
Failure(reason) == [success |-> FALSE, reason |-> reason, damage |-> 0, call |-> "combat"]

\* the stamina guard of resolve_combat: `if attacker.stamina < 10: return ...`
exhausted_below_zero(attacker) == attacker.cls \in PredatorClasses /\ attacker.stamina < 0

exhausted(attacker) == attacker.cls \in PredatorClasses /\ attacker.stamina < 10

\* CombatSystem.resolve_combat(attacker, defender); critical is
\* random.random() < 0.15.  The result holds both combatants after the call.
resolve_combat_between(attacker, defender, variance, critical) ==
    IF ~attacker.is_alive \/ ~defender.is_alive
    THEN [attacker |-> attacker, defender |-> defender, result |-> Failure("not_alive")]
    ELSE IF exhausted(attacker)
    THEN [attacker |-> attacker, defender |-> defender, result |-> Failure("exhausted")]
    ELSE LET a1 == IF attacker.cls \in PredatorClasses
                   THEN [attacker EXCEPT !.stamina = @ - 10] ELSE attacker
             d0 == calculate_damage(a1, defender, variance)
             final_damage == IF critical THEN IntTrunc(3 * d0, 2) ELSE d0
             d1 == combatant_take_damage(defender, final_damage)
         IN [attacker |-> IF ~d1.is_alive /\ a1.cls \in PredatorClasses
                          THEN award_honour_for_defeat(a1, d1) ELSE a1,
             defender |-> d1,
             result |-> [success |-> TRUE, reason |-> "none",
                         damage |-> final_damage, call |-> "combat"]]

\* CombatSystem.clan_challenge(challenger, challenged); f1 and f2 are the two
\* random.uniform(0.8, 1.2) factors in hundredths, the scores are doubled
clan_challenge_between(challenger, challenged, f1, f2) ==
    IF challenger.cls \notin PredatorClasses \/ challenged.cls \notin PredatorClasses
    THEN [attacker |-> challenger, defender |-> challenged,
          result |-> [Failure("not_predators") EXCEPT !.call = "challenge"]]
    ELSE LET challenger_wins ==
                 (2 * challenger.honour + challenger.health) * f1
                   > (2 * challenged.honour + challenged.health) * f2
             hit(c, lost) == IF lost THEN base_take_damage(c, 15) ELSE c
             paid(c, lost) ==
                 [combatant_update_honour(hit(c, lost),
                      IF lost THEN "lose_clan_challenge" ELSE "win_clan_challenge",
                      EmptyCtx)
                  EXCEPT !.stamina = SpendStamina(@, 15)]
         IN [attacker |-> paid(challenger, ~challenger_wins),
             defender |-> paid(challenged, challenger_wins),
             result |-> [success |-> TRUE,
                         reason |-> IF challenger_wins THEN "challenger" ELSE "challenged",
                         damage |-> 15, call |-> "challenge"]]

\* the stamina cost of Predator._execute_move: 5 if carrying_thia else 2
move_cost(c) == IF c.carrying_thia THEN 5 ELSE 2

\* _execute_move of the three movers, on the combatant c standing at p: the
\* Predator pays its stamina first; all wrap the destination and move when
\* Grid.is_valid_position accepts it (a cell is passable unless an obstacle)
execute_move(c, p, direction, obst) ==
    [c |-> IF c.cls \in PredatorClasses
           THEN [c EXCEPT !.stamina = SpendStamina(@, move_cost(c))] ELSE c,
     pos |-> MovedPosition(p, direction, obst)]

\* _execute_attack of the three attackers; the result holds both combatants
\* after the call and the result of resolve_combat when it was called
execute_attack(attacker, target, pa, pt, variance, critical) ==
    LET untouched == [attacker |-> attacker, defender |-> target,
                      result |-> Failure("not_called")]
    IN CASE attacker.cls \in PredatorClasses ->
              IF target.is_alive /\ manhattan_distance(pa, pt) <= 1
              THEN resolve_combat_between(attacker, target, variance, critical)
              ELSE untouched
         [] attacker.cls \in BossClasses ->
              IF manhattan_distance(pa, pt) <= 1
              THEN [attacker |-> [attacker EXCEPT !.times_attacked = @ + 1],
                    defender |-> combatant_take_damage(target, attacker.attack_power),
                    result |-> Failure("not_called")]
              ELSE untouched
         [] attacker.cls = "Wildlife" ->
              [attacker |-> attacker,
               defender |-> combatant_take_damage(target, attacker.attack_power),
               result |-> Failure("not_called")]
         [] OTHER -> untouched

(***************************************************************************)
(* environment/hazards.py -- traps and weather                              *)
(***************************************************************************)
\* Trap.__init__: trap_damages
trap_damage(trap_type) ==
    CASE trap_type = "spike" -> 15
      [] trap_type = "net"   -> 5
      [] trap_type = "pit"   -> 25
      [] OTHER -> 10

\* the active traps lying on one cell: count traps of one kind, on a cell that
\* the agents of reach may step on
NoTrap == [kind |-> "none", count |-> 0, reach |-> {}]

\* Trap.trigger on each of k traps of one kind: agent.take_damage(self.damage)
RECURSIVE trigger(_, _, _, _)
trigger(w, n, kind, k) ==
    IF k = 0 THEN w ELSE trigger(take_damage(w, n, trap_damage(kind)), n, kind, k - 1)

\* HazardManager.check_hazards(agent): trap holds the active traps at the
\* agent's position (NoTrap: there is none); every one of them is triggered
check_hazards(w, n, trap) ==
    IF trap = NoTrap THEN w ELSE trigger(w, n, trap.kind, trap.count)

ClearWeather == [type |-> "clear", active |-> FALSE, duration |-> 0]

\* WeatherEffect.update
weather_update(wt) ==
    IF ~wt.active THEN wt
    ELSE IF wt.duration - 1 <= 0
    THEN [wt EXCEPT !.duration = @ - 1, !.active = FALSE]
    ELSE [wt EXCEPT !.duration = @ - 1]

\* WeatherEffect.apply_effect on the agents of rost that have stamina
weather_cost(wt) ==
    CASE wt.type = "storm" -> 1
      [] wt.type = "heat"  -> 2
      [] OTHER -> 0

apply_effect(ags, rost, wt) ==
    IF ~wt.active THEN ags
    ELSE [n \in DOMAIN ags |->
            IF (\E i \in 1..Len(rost) : rost[i] = n) /\ ags[n].cls \in PredatorClasses
               /\ wt.type \in {"storm", "heat"}
            THEN [ags[n] EXCEPT !.stamina = SpendStamina(@, weather_cost(wt))]
            ELSE ags[n]]

\* HazardManager.update_weather
update_weather(ags, rost, wt) ==
    LET wt1 == weather_update(wt)
    IN [weather |-> wt1,
        agents |-> IF wt1.active THEN apply_effect(ags, rost, wt1) ELSE ags]

\* HazardManager.trigger_random_weather: drawn is the type drawn when
\* random.random() < 0.1 ("none" otherwise), duration the duration drawn
trigger_random_weather(wt, drawn, duration) ==
    IF ~wt.active /\ drawn # "none"
    THEN [type |-> drawn, active |-> TRUE, duration |-> duration]
    ELSE wt

(***************************************************************************)
(* agents/qlearning_predator.py -- the learning fields of the learner       *)
(*                                                                         *)
(* Estimates are integers in millionths, epsilon is an integer in          *)
(* billionths, learning_rate and discount_factor are in tenths.  me is the *)
(* learner as the call finds it ([health, stamina, honour, is_alive]); env *)
(* is what the grid shows it: wildlife living creatures, all at distance   *)
(* wild_dist, and a boss of class boss_cls ("none": no boss on the grid),  *)
(* alive or not, at distance boss_dist.                                    *)
(***************************************************************************)
learning_rate == 1

discount_factor == 9

Micro == 1000000

MinEpsilon == 50000000

NoKey == <<"None">>

\* QLearningPredator.__init__ (the learning fields), epsilon as given
NewQLearningPredator(eps) ==
    [q_table |-> << >>, last_state |-> NoKey, last_action |-> "None",
     last_honour |-> 0, epsilon |-> eps, total_rewards |-> 0,
     actions_taken |-> 0, exploration_count |-> 0, exploitation_count |-> 0]

\* QLearningPredator._count_nearby_wildlife
count_nearby_wildlife(env, radius) ==
    IF env.wild_dist <= radius THEN env.wildlife ELSE 0

\* Predator._find_nearby_threats: the kinds of the living threats within radius
find_nearby_threats(env, radius) ==
    {k \in {"wildlife"} : env.wildlife > 0 /\ env.wild_dist <= radius}
    \cup {k \in {"boss"} : /\ env.boss_cls \in {"Adversary", "AdaptiveAdversary"}
                          /\ env.boss_alive
                          /\ env.boss_dist <= radius}

\* min(threats, key = distance): the boss precedes the wildlife in Grid.agents
closest_threat(env, threats) ==
    IF "boss" \in threats /\ ("wildlife" \notin threats \/ env.boss_dist <= env.wild_dist)
    THEN [kind |-> "boss", dist |-> env.boss_dist]
    ELSE [kind |-> "wildlife", dist |-> env.wild_dist]

\* Grid.get_adversary_position: an agent of class Adversary, living or not
get_adversary_position(env) == env.boss_cls = "Adversary"

\* QLearningPredator._find_adversary: a living boss of either class
find_adversary(env) ==
    env.boss_cls \in {"Adversary", "AdaptiveAdversary"} /\ env.boss_alive

\* QLearningPredator._get_state_representation: the five levels of the key
get_state_representation(me, env) ==
    LET n == count_nearby_wildlife(env, 5)
    IN << IF me.health > 70 THEN "high" ELSE IF me.health > 40 THEN "medium" ELSE "low",
          IF me.stamina > 60 THEN "high" ELSE IF me.stamina > 30 THEN "medium" ELSE "low",
          IF me.honour >= 80 THEN "elite" ELSE IF me.honour >= 50 THEN "ready"
          ELSE IF me.honour >= 30 THEN "blooded" ELSE "low",
          IF n >= 3 THEN "many" ELSE IF n >= 1 THEN "some" ELSE "none",
          IF get_adversary_position(env)
          THEN (IF env.boss_dist <= 3 THEN "close"
                ELSE IF env.boss_dist <= 8 THEN "near" ELSE "far")
          ELSE "none" >>

\* QLearningPredator._get_possible_actions
get_possible_actions(me, env) ==
    {"rest"}
    \cup (IF me.stamina >= 5 THEN {"move_N", "move_S", "move_E", "move_W"} ELSE {})
    \cup (IF find_nearby_threats(env, 5) # {} /\ me.stamina >= 10
          THEN {"hunt_wildlife"} ELSE {})
    \cup (IF get_adversary_position(env) /\ me.honour >= 40 /\ me.health > 40
          THEN {"engage_adversary"} ELSE {})
    \cup (IF me.honour < 50 THEN {"seek_prey"} ELSE {})

\* the row a state key gets at its first visit: {action: 0.0 for action in ...}
NewRow(possible) == [a \in possible |-> 0]

\* `if current_state not in self.q_table: self.q_table[current_state] = ...`
with_row(table, key, possible) ==
    IF key \in DOMAIN table THEN table ELSE (key :> NewRow(possible)) @@ table

\* max(row.values()) of a row, 0.0 for an empty one
max_q(row) ==
    IF DOMAIN row = {} THEN 0
    ELSE CHOOSE v \in {row[a] : a \in DOMAIN row} : \A a \in DOMAIN row : row[a] <= v

\* the action a decision returns to the simulation
SimAction(type, target, direction) ==
    [type |-> type, target |-> target, direction |-> direction]

\* attack the threat found when it is at distance <= 1, else move toward it
approach_by_moving(kind, dist) == SimAction("move", "none", kind)

approach(kind, dist) ==
    IF dist <= 1 THEN SimAction("attack", kind, "-")
    ELSE SimAction("move", "none", kind)

\* QLearningPredator._convert_to_simulation_action (seek is the direction
\* random.choice draws when no wildlife is within 10)
convert_to_simulation_action(q_action, me, env, seek) ==
    CASE q_action = "rest" -> SimAction("rest", "none", "-")
      [] q_action \in {"move_N", "move_S", "move_E", "move_W"} ->
           SimAction("move", "none",
                     CASE q_action = "move_N" -> "N" [] q_action = "move_S" -> "S"
                       [] q_action = "move_E" -> "E" [] OTHER -> "W")
      [] q_action = "hunt_wildlife" ->
           (IF find_nearby_threats(env, 5) # {}
            THEN LET c == closest_threat(env, find_nearby_threats(env, 5))
                 IN approach(c.kind, c.dist)
            ELSE SimAction("rest", "none", "-"))
      [] q_action = "engage_adversary" ->
           (IF find_adversary(env) THEN approach("boss", env.boss_dist)
            ELSE SimAction("rest", "none", "-"))
      [] q_action = "seek_prey" ->
           (IF find_nearby_threats(env, 10) # {}
            THEN SimAction("move", "none",
                           closest_threat(env, find_nearby_threats(env, 10)).kind)
            ELSE SimAction("move", "none", seek))
      [] OTHER -> SimAction("rest", "none", "-")

\* the selection bookkeeping: last_state, last_action, last_honour, actions_taken
selected(L, key, q_action, me) ==
    [L EXCEPT !.last_state = key, !.last_action = q_action,
              !.last_honour = me.honour, !.actions_taken = @ + 1]

\* QLearningPredator.decide_action.  engage_roll and hunt_roll are the draws
\* random.random() < 0.8 and < 0.7 of the two overrides, explore the draw
\* random.random() < epsilon, choice the action random.choice picks.  The
\* result is the learner after the call, the action returned and the branch.
decide_action(L0, me, env, engage_roll, hunt_roll, explore, choice, seek) ==
    LET key == get_state_representation(me, env)
        possible == get_possible_actions(me, env)
        L == [L0 EXCEPT !.q_table = with_row(@, key, possible)]
        threats == find_nearby_threats(env, 5)
    IN IF /\ me.honour >= 50 /\ me.health > 50 /\ me.stamina > 40
          /\ find_adversary(env) /\ engage_roll
       THEN [learner |-> selected(L, key, "engage_adversary", me),
             action |-> approach("boss", env.boss_dist), branch |-> "forced_engage"]
       ELSE IF me.honour < 40 /\ me.stamina > 20 /\ threats # {} /\ hunt_roll
       THEN [learner |-> selected(L, key, "hunt_wildlife", me),
             action |-> LET c == closest_threat(env, threats) IN approach(c.kind, c.dist),
             branch |-> "forced_hunt"]
       ELSE [learner |->
                 [selected(L, key, choice, me) EXCEPT
                     !.exploration_count = IF explore THEN @ + 1 ELSE @,
                     !.exploitation_count = IF explore THEN @ ELSE @ + 1],
             action |-> convert_to_simulation_action(choice, me, env, seek),
             branch |-> IF explore THEN "explore" ELSE "exploit"]

\* the actions random.choice can pick in the epsilon-greedy branch
choices(L0, me, env, explore) ==
    LET key == get_state_representation(me, env)
        possible == get_possible_actions(me, env)
        row == with_row(L0.q_table, key, possible)[key]
    IN IF explore THEN possible
       ELSE {a \in DOMAIN row : row[a] = max_q(row)}

\* new_q = old_q + learning_rate * (reward + discount_factor * max_future_q - old_q)
td_update_without_discount(old_q, reward, max_future_q) ==
    old_q + (learning_rate * (10 * reward + 10 * max_future_q - 10 * old_q)) \div 100

td_update(old_q, reward, max_future_q) ==
    old_q + (learning_rate * (10 * reward + discount_factor * max_future_q
                              - 10 * old_q)) \div 100

\* QLearningPredator.update_q_value with the reward given (in millionths)
update_q_value(L, me, env, reward) ==
    IF L.last_state = NoKey \/ L.last_action = "None" THEN L
    ELSE LET key == get_state_representation(me, env)
             table == with_row(L.q_table, key, get_possible_actions(me, env))
             row == table[L.last_state]
             old_q == IF L.last_action \in DOMAIN row THEN row[L.last_action] ELSE 0
             new_q == td_update(old_q, reward, max_q(table[key]))
         IN [L EXCEPT
               !.q_table = [table EXCEPT ![L.last_state] = (L.last_action :> new_q) @@ @],
               !.total_rewards = @ + reward]

\* the boss-proximity term of _calculate_reward; ready is honour >= 50 and
\* health > 50
proximity_reward_unconditional(ready, dist) ==
    IF dist < 5 THEN 15 ELSE IF dist < 10 THEN 8 ELSE 0

proximity_reward(ready, dist) ==
    IF ready
    THEN (IF dist < 5 THEN 15 ELSE IF dist < 10 THEN 8 ELSE 0)
    ELSE (IF dist < 5 THEN -5 ELSE 0)

\* QLearningPredator._calculate_reward (in millionths); me.trophies is
\* len(self.trophies)
calculate_reward(L, me, env) ==
    Micro * (10 * (me.honour - L.last_honour)
             + (IF me.is_alive THEN 1 ELSE -200)
             + (IF me.health < 20 THEN -10 ELSE IF me.health > 70 THEN 2 ELSE 0)
             + (IF me.stamina < 10 THEN -2 ELSE 0)
             + (IF find_adversary(env)
                THEN proximity_reward(me.honour >= 50 /\ me.health > 50, env.boss_dist)
                ELSE 0)
             + 5 * me.trophies
             + (IF L.last_action = "rest" /\ me.stamina > 50 THEN -5 ELSE 0))

\* QLearningPredator.decay_epsilon with the default decay_rate = 0.995:
\* max(0.05, epsilon * 0.995), epsilon * 0.995 being epsilon - epsilon / 200
decay_epsilon_flooring_first(eps) == Max(MinEpsilon, eps) - Max(MinEpsilon, eps) \div 200

decay_epsilon(eps) == Max(MinEpsilon, eps - eps \div 200)

(***************************************************************************)
(* The objects as constructed                                               *)
(***************************************************************************)
\* the boss's spawn cell (ADVERSARY_INITIAL_POSITION of the configuration)
BossStart == <<3, 3>>

\* AdaptiveAdversary.__init__ with the default threat_radius = 5
BossConstructed(spawn, hp, obst) ==
    /\ boss = NewAdaptiveAdversary(spawn, hp, 5)
    /\ boss_obs = [action |-> NoAction, target |-> NoPos, prev_branch |-> "none",
                   turns |-> 0, denial_floor |-> 0, berserk_base |-> 0,
                   retreats |-> << >>]
    /\ obstacles = obst

\* what run returns; NoReturn before it has returned
NoReturn == [turns |-> 0, dek_alive |-> TRUE, adversary_alive |-> TRUE, victory |-> FALSE]

\* k active pits on one cell
Pits(k, reach) == [kind |-> "pit", count |-> k, reach |-> reach]

\* the agents of a run
Everyone == {"Dek", "Thia", "Beast", "Creature", "Clan"}

\* PredatorBadlandsSimulation.__init__: Dek (a QLearningPredator when
\* use_qlearning, else a Predator), Thia, the boss and one creature of threat
\* level 2 are added to the grid in this order; with_clan adds a clan member
\* (a Predator that is not Dek) after them.  traps are the traps that
\* generate_random_hazards has laid where an agent will step; the weather is
\* clear.
RunConstructed(dek_cls, with_clan, traps, mt) ==
    /\ agents = [n \in {"Dek", "Thia", "Creature", "Clan"} |->
                   CASE n = "Dek" -> NewPredator(dek_cls, DekInitialHealth,
                                                 DekInitialStamina, TRUE)
                     [] n = "Thia" -> NewSynthetic(50)
                     [] n = "Creature" -> NewWildlife(30, 2)
                     [] n = "Clan" -> NewPredator("Predator", 100, 100, FALSE)]
    /\ roster = <<"Dek", "Thia", "Beast", "Creature">>
                \o (IF with_clan THEN <<"Clan">> ELSE << >>)
    /\ turn = 0
    /\ running = TRUE
    /\ max_turns = mt
    /\ loop = [phase |-> "idle", snapshot |-> << >>, idx |-> 0, log |-> << >>,
               result |-> "None", returned |-> NoReturn]
    /\ hazards = [traps |-> traps, weather |-> ClearWeather]

\* the run variables as the other specifications leave them
RunParked == RunConstructed("Predator", TRUE, {Pits(1, Everyone)}, MaxTurns)

\* no call of the learner yet
NoCall == [call |-> "none", key |-> NoKey, possible |-> {}, branch |-> "none",
           action |-> SimAction("none", "none", "-"),
           me |-> [health |-> 0, stamina |-> 0, honour |-> 0, is_alive |-> FALSE],
           env |-> [wildlife |-> 0, wild_dist |-> 0, boss_cls |-> "none",
                    boss_alive |-> FALSE, boss_dist |-> 0],
           reward |-> 0]

\* QLearningPredator.__init__ with epsilon = eps, facing a boss of class cls
LearnerConstructed(eps, cls) ==
    /\ learner = NewQLearningPredator(eps)
    /\ learner_obs = [calls |-> 0, first_legal |-> << >>, e0 |-> eps, decays |-> 0,
                      boss_cls |-> cls, last |-> NoCall]

\* the learner as the other specifications leave it (epsilon = 0.2)
LearnerParked == LearnerConstructed(200000000, "AdaptiveAdversary")

\* no validate_hunt call made yet
NoHunt == [target |-> "none", honourable |-> FALSE, violations |-> << >>]

\* two combatants before any CombatSystem call on them
DuelConstructed(a, b) ==
    duel = [a |-> a, b |-> b, rounds |-> 0,
            last |-> [success |-> FALSE, reason |-> "none", damage |-> 0,
                      call |-> "none", by |-> "none", variance |-> 0,
                      critical |-> FALSE],
            hunt |-> NoHunt]

\* the combatants as the other specifications leave them
DuelParked ==
    DuelConstructed(NewCombatant("Predator", "Dek", 100, 50, 0, 0),
                    NewCombatant("Wildlife", "Creature", 30, 0, 0, 2))

\* no execute_action call made yet
NoExecute == [op |-> "none", by |-> "none", direction |-> "-"]

\* the two combatants placed on the grid at pa and pb
FieldConstructed(pa, pb) ==
    field = [pos |-> [a |-> pa, b |-> pb], steps |-> 0, last |-> NoExecute]

FieldParked == FieldConstructed(<<0, 0>>, <<0, 1>>)

(***************************************************************************)
(* SpecHonour: one combatant, any sequence of update_honour calls           *)
(***************************************************************************)
HonourActions == KnownActions \cup {"unknown_action"}

HonourContexts ==
    {EmptyCtx}
    \cup {TargetCtx(c, t) : c \in {"Wildlife"}, t \in 0..3}
    \cup {TargetCtx(c, 0) : c \in {"Adversary", "AdaptiveAdversary", "Predator"}}
    \cup {[target |-> "none", threat |-> 0, health |-> hh, opp |-> -1] : hh \in {10, 50}}
    \cup {[target |-> "Predator", threat |-> 0, health |-> -1, opp |-> o] : o \in {50, 80}}

\* Predator.__init__ defaults: honour = 0, clan_rank = "Unblooded"
HonourConstructed ==
    /\ honour = 0
    /\ clan_rank = "Unblooded"
    /\ hon_last = [action |-> "none", change |-> 0, old |-> 0]

InitHonour ==
    /\ HonourConstructed
    /\ BossConstructed(BossStart, 500, {})
    /\ RunParked
    /\ LearnerParked
    /\ DuelParked
    /\ FieldParked

UpdateHonour(action, ctx) ==
    /\ honour < MaxHonour
    /\ LET f == update_honour_fields(honour, clan_rank, action, ctx)
       IN /\ honour' = f.honour
          /\ clan_rank' = f.clan_rank
    /\ hon_last' = [action |-> action,
                    change |-> honour_change(action, ctx), old |-> honour]
    /\ UNCHANGED <<bossVars, runVars, learnerVars, duelVars, fieldVars>>

NextHonour == \E a \in HonourActions, c \in HonourContexts : UpdateHonour(a, c)

SpecHonour == InitHonour /\ [][NextHonour]_vars

(***************************************************************************)
(* SpecBoss and SpecCircle: the adaptive boss under run_turn's calls         *)
(***************************************************************************)
\* What the opponent did after each exchange recorded in attack_pattern_memory
\* (observed beside the boss, not a field of it): "open" until the boss's next
\* decision, then "yes" when that decision finds the opponent farther from the
\* boss than it last stood, "no" otherwise.
SettleRetreats(r, away) ==
    [i \in 1..Len(r) |-> IF r[i] = "open" THEN (IF away THEN "yes" ELSE "no") ELSE r[i]]

MovedAway(target) ==
    /\ target # NoPos
    /\ boss_obs.target # NoPos
    /\ manhattan_distance(boss.position, target)
         > manhattan_distance(boss.position, boss_obs.target)

\* One turn of the boss in run_turn: decide_action, then execute_action.
\* target is where the environment shows the nearest Predator (NoPos: none).
BossTurn(target, jitter, idx) ==
    /\ boss.is_alive
    /\ boss.times_attacked < MaxAttacked
    /\ \E r \in {adaptive_decide(boss, target, jitter, idx)} :
       LET unlocked == r.boss.area_denial /\ ~boss.area_denial
           entered == r.action.branch = "berserker"
                      /\ boss_obs.action.branch # "berserker"
       IN /\ boss' = adversary_execute(r.boss, r.action, target, obstacles)
          /\ boss_obs' = [action |-> r.action, target |-> target,
                          prev_branch |-> boss_obs.action.branch,
                          turns |-> boss_obs.turns + 1,
                          denial_floor |-> IF unlocked THEN boss.threat_radius + 3
                                           ELSE boss_obs.denial_floor,
                          berserk_base |-> IF entered THEN boss.attack_power
                                           ELSE boss_obs.berserk_base,
                          retreats |-> SettleRetreats(boss_obs.retreats,
                                                      MovedAway(target))]
    /\ UNCHANGED <<obstacles, honourVars, runVars, learnerVars, duelVars, fieldVars>>

\* A damage event on the boss: take_damage(damage), from resolve_combat or a trap
BossDamaged(damage) ==
    /\ boss.is_alive
    /\ boss.times_attacked < MaxAttacked
    /\ boss' = adaptive_take_damage(boss, damage)
    /\ boss_obs' = [boss_obs EXCEPT !.retreats = DequeAppend(@, "open", 20)]
    /\ UNCHANGED <<obstacles, honourVars, runVars, learnerVars, duelVars, fieldVars>>

\* SpecBoss: the opponent stands next to the spawn cell
LadderTargets == {<<3, 4>>}

LadderDamages == {30}

InitBoss ==
    /\ HonourConstructed
    /\ BossConstructed(BossStart, 500, {})
    /\ RunParked
    /\ LearnerParked
    /\ DuelParked
    /\ FieldParked

NextBoss ==
    \/ /\ boss_obs.turns < MaxBossTurns
       /\ \E t \in LadderTargets, j \in BOOLEAN : BossTurn(t, j, 0)
    \/ \E d \in LadderDamages : BossDamaged(d)

SpecBoss == InitBoss /\ [][NextBoss]_vars

\* SpecCircle: the boss spawns in the corner, every neighbour cell of it is an
\* obstacle (so it never leaves), and the opponent is seen at one of two cells
\* at distance 5 or, at most MaxOutliers times, at a cell at distance 12
CircleStart == <<0, 0>>

Neighbours(p) ==
    {WrapPos(<<p[1] + dx, p[2] + dy>>) : dx \in {-1, 0, 1}, dy \in {-1, 0, 1}} \ {p}

CircleNear == {<<5, 0>>, <<2, 3>>}

CircleFar == <<6, 6>>

Outliers(h) == Cardinality({i \in 1..Len(h) : h[i] = CircleFar})

InitCircle ==
    /\ HonourConstructed
    /\ BossConstructed(CircleStart, 500, Neighbours(CircleStart))
    /\ RunParked
    /\ LearnerParked
    /\ DuelParked
    /\ FieldParked

NextCircle ==
    /\ boss_obs.turns < MaxCircleTurns
    /\ \/ \E t \in CircleNear : BossTurn(t, FALSE, 0)
       \/ /\ Outliers(boss.predator_position_history) < MaxOutliers
          /\ BossTurn(CircleFar, FALSE, 0)

SpecCircle == InitCircle /\ [][NextCircle]_vars

\* the cell below p, or the one above it on the last row
NextTo(p) == IF p[2] + 1 < GridH THEN <<p[1], p[2] + 1>> ELSE <<p[1], p[2] - 1>>

\* SpecHitRun: the opponent is seen next to the boss or three cells away from
\* it, and strikes the boss (at most once between two decisions) from the cell
\* next to it
Away(p) == IF p[2] + 3 < GridH THEN <<p[1], p[2] + 3>> ELSE <<p[1], p[2] - 3>>

Open(r) == Len(r) > 0 /\ r[Len(r)] = "open"

InitHitRun ==
    /\ HonourConstructed
    /\ BossConstructed(BossStart, 500, {})
    /\ RunParked
    /\ LearnerParked
    /\ DuelParked
    /\ FieldParked

NextHitRun ==
    \/ /\ boss_obs.turns < MaxHitRunTurns
       /\ \E t \in {NextTo(boss.position), Away(boss.position)} : BossTurn(t, FALSE, 0)
    \/ /\ boss_obs.target # NoPos
       /\ manhattan_distance(boss.position, boss_obs.target) <= 1
       /\ ~Open(boss_obs.retreats)
       /\ Len(boss_obs.retreats) < MaxExchanges
       /\ BossDamaged(30)

SpecHitRun == InitHitRun /\ [][NextHitRun]_vars

\* SpecChase: the opponent is seen next to the boss or at one of two fixed
\* cells, five and six cells away from the spawn cell; nothing strikes the boss
MaxChaseTurns == 8

ChaseCells == {<<6, 5>>, <<6, 6>>}

NextChase ==
    /\ boss_obs.turns < MaxChaseTurns
    /\ \E t \in {NextTo(boss.position)} \cup ChaseCells, j \in BOOLEAN, idx \in 0..3 :
          BossTurn(t, j, idx)

SpecChase == InitBoss /\ [][NextChase]_vars

(***************************************************************************)
(* SpecLearner: any sequence of decide_action, update_q_value and           *)
(* decay_epsilon calls on one QLearningPredator                             *)
(***************************************************************************)
\* the learner as a call finds it: spent and unblooded, rested a little, or
\* fit and ready for the boss
QSelves ==
    {[health |-> 100, stamina |-> f[1], honour |-> f[2], is_alive |-> TRUE] :
        f \in {<<3, 0>>, <<25, 0>>, <<50, 60>>}}

\* one creature next to the learner or none, the boss two cells away; or no
\* creature and the boss next to the learner
QEnvironments ==
    {[wildlife |-> w, wild_dist |-> 1, boss_cls |-> learner_obs.boss_cls,
      boss_alive |-> TRUE, boss_dist |-> 2] : w \in {0, 1}}
    \cup {[wildlife |-> 0, wild_dist |-> 1, boss_cls |-> learner_obs.boss_cls,
           boss_alive |-> TRUE, boss_dist |-> 1]}

QRewards == {10 * Micro, -5 * Micro}

\* the learners constructed: epsilon = 0.2 (the default), 0.0504 and 0.04
LearnerConfigurations ==
    {<<200000000, "Adversary">>, <<200000000, "AdaptiveAdversary">>,
     <<50400000, "AdaptiveAdversary">>, <<40000000, "AdaptiveAdversary">>}

\* the legal sets recorded when a state key gets its row
first_visit(legal, table, key, possible) ==
    IF key \in DOMAIN table THEN legal ELSE (key :> possible) @@ legal

InitLearner ==
    /\ HonourConstructed
    /\ BossConstructed(BossStart, 500, {})
    /\ RunParked
    /\ \E c \in LearnerConfigurations : LearnerConstructed(c[1], c[2])
    /\ DuelParked
    /\ FieldParked

DecideAction(me, env, engage_roll, hunt_roll, explore, choice) ==
    /\ learner_obs.calls < MaxLearnerCalls
    /\ \E r \in {decide_action(learner, me, env, engage_roll, hunt_roll,
                               explore, choice, "N")} :
         /\ engage_roll => r.branch = "forced_engage"
         /\ hunt_roll => r.branch = "forced_hunt"
         /\ r.branch \in {"forced_engage", "forced_hunt"} => ~explore /\ choice = "rest"
         /\ r.branch \in {"explore", "exploit"}
              => choice \in choices(learner, me, env, explore)
         /\ explore => learner.epsilon > 0
         /\ learner' = r.learner
         /\ learner_obs' =
              [learner_obs EXCEPT
                 !.calls = @ + 1,
                 !.first_legal = first_visit(@, learner.q_table,
                                             get_state_representation(me, env),
                                             get_possible_actions(me, env)),
                 !.last = [call |-> "decide",
                           key |-> get_state_representation(me, env),
                           possible |-> get_possible_actions(me, env),
                           branch |-> r.branch, action |-> r.action,
                           me |-> me, env |-> env, reward |-> 0]]
    /\ UNCHANGED <<honourVars, bossVars, runVars, duelVars, fieldVars>>

UpdateQValue(me, env, reward) ==
    /\ learner_obs.calls < MaxLearnerCalls
    /\ learner' = update_q_value(learner, me, env, reward)
    /\ learner_obs' =
         [learner_obs EXCEPT
            !.calls = @ + 1,
            !.first_legal = IF learner.last_state = NoKey THEN @
                            ELSE first_visit(@, learner.q_table,
                                             get_state_representation(me, env),
                                             get_possible_actions(me, env)),
            !.last = [call |-> "update",
                      key |-> get_state_representation(me, env),
                      possible |-> get_possible_actions(me, env),
                      branch |-> "none", action |-> SimAction("none", "none", "-"),
                      me |-> me, env |-> env, reward |-> reward]]
    /\ UNCHANGED <<honourVars, bossVars, runVars, duelVars, fieldVars>>

DecayEpsilon ==
    /\ learner_obs.calls < MaxLearnerCalls
    /\ learner_obs.decays < MaxDecays
    /\ learner' = [learner EXCEPT !.epsilon = decay_epsilon(@)]
    /\ learner_obs' = [learner_obs EXCEPT !.calls = @ + 1, !.decays = @ + 1,
                                          !.last = [NoCall EXCEPT !.call = "decay"]]
    /\ UNCHANGED <<honourVars, bossVars, runVars, duelVars, fieldVars>>

NextLearner ==
    \/ \E me \in QSelves, env \in QEnvironments, er \in BOOLEAN, hr \in BOOLEAN,
          ex \in BOOLEAN, ch \in {"rest", "move_N", "engage_adversary"} :
         DecideAction(me, env, er, hr, ex, ch)
    \/ \E me \in QSelves, env \in QEnvironments, reward \in QRewards :
         UpdateQValue(me, env, reward)
    \/ DecayEpsilon

SpecLearner == InitLearner /\ [][NextLearner]_vars

(***************************************************************************)
(* SpecReward: decide_action calls on one QLearningPredator, and            *)
(* _calculate_reward applied to the learner and the world it is called in   *)
(***************************************************************************)
\* the learner as _calculate_reward finds it: dead, wounded, hurt or whole;
\* spent and unblooded without a trophy, or rested with honour 60 and two
RewardSelves ==
    {[health |-> h, stamina |-> f[1], honour |-> f[2], trophies |-> f[3],
      is_alive |-> h > 0] :
        h \in {0, 15, 60, 100}, f \in {<<5, 0, 0>>, <<60, 60, 2>>}}

\* the boss living or dead, 3, 7 or 12 cells away
RewardEnvironments ==
    {[wildlife |-> 0, wild_dist |-> 1, boss_cls |-> learner_obs.boss_cls,
      boss_alive |-> a, boss_dist |-> d] : a \in BOOLEAN, d \in {3, 7, 12}}

CalculateReward(me, env) ==
    /\ learner_obs.calls < MaxLearnerCalls
    /\ learner' = learner
    /\ learner_obs' =
         [learner_obs EXCEPT
            !.calls = @ + 1,
            !.last = [NoCall EXCEPT !.call = "reward", !.me = me, !.env = env,
                                    !.reward = calculate_reward(learner, me, env)]]
    /\ UNCHANGED <<honourVars, bossVars, runVars, duelVars, fieldVars>>

NextReward ==
    \/ \E me \in QSelves, env \in QEnvironments, er \in BOOLEAN, hr \in BOOLEAN,
          ex \in BOOLEAN, ch \in {"rest", "move_N", "engage_adversary"} :
         DecideAction(me, env, er, hr, ex, ch)
    \/ \E me \in RewardSelves, env \in RewardEnvironments : CalculateReward(me, env)

SpecReward == InitLearner /\ [][NextReward]_vars

(***************************************************************************)
(* SpecCombat: CombatSystem.resolve_combat and clan_challenge called on two *)
(* combatants, either of them attacking                                     *)
(***************************************************************************)
\* the first combatant: a Predator (fresh, honoured, spent, or carrying
\* Thia), a QLearningPredator, an adaptive boss or a creature
DuelFighters ==
    {NewCombatant("Predator", "Dek", 100, f[1], f[2], 0) :
        f \in {<<50, 0>>, <<50, 100>>, <<5, 160>>}}
    \cup {[NewCombatant("Predator", "Dek", 100, 50, 0, 0) EXCEPT !.carrying_thia = TRUE]}
    \cup {NewCombatant("QLearningPredator", "Dek", 100, 50, 100, 0),
          NewCombatant("AdaptiveAdversary", "Beast", 60, 0, 0, 0),
          NewCombatant("Wildlife", "Creature", 10, 0, 0, 2)}

\* the second: a creature of threat level 0 to 3, a boss of either class, a
\* clan member (wounded and honoured, or fresh) or Thia
DuelOpponents ==
    {NewCombatant("Wildlife", "Prey", 10, 0, 0, t) : t \in 0..3}
    \cup {NewCombatant(c, "Beast", 60, 0, 0, 0) : c \in BossClasses}
    \cup {NewCombatant("Predator", "Clan", 20, 50, 80, 0),
          NewCombatant("Predator", "Clan", 100, 50, 0, 0),
          NewCombatant("Synthetic", "Thia", 50, 0, 0, 0)}

\* random.uniform(0.8, 1.2) in hundredths: its ends and its middle
Variances == {80, 100, 120}

InitCombat ==
    /\ HonourConstructed
    /\ BossConstructed(BossStart, 500, {})
    /\ RunParked
    /\ LearnerParked
    /\ \E a \in DuelFighters, b \in DuelOpponents : DuelConstructed(a, b)
    /\ FieldParked

\* the call's outcome stored: who called as attacker, the draws it was given,
\* both combatants after it
Fought(by, r, variance, critical) ==
    /\ duel' = [a |-> IF by = "a" THEN r.attacker ELSE r.defender,
                b |-> IF by = "a" THEN r.defender ELSE r.attacker,
                rounds |-> duel.rounds + 1,
                last |-> [success |-> r.result.success, reason |-> r.result.reason,
                          damage |-> r.result.damage, call |-> r.result.call,
                          by |-> by, variance |-> variance, critical |-> critical],
                hunt |-> duel.hunt]
    /\ UNCHANGED <<honourVars, bossVars, runVars, learnerVars, fieldVars>>

ResolveCombat(by, variance, critical) ==
    /\ duel.rounds < MaxRounds
    /\ Fought(by, IF by = "a"
                  THEN resolve_combat_between(duel.a, duel.b, variance, critical)
                  ELSE resolve_combat_between(duel.b, duel.a, variance, critical),
              variance, critical)

ClanChallenge(by, f1, f2) ==
    /\ duel.rounds < MaxRounds
    /\ Fought(by, IF by = "a" THEN clan_challenge_between(duel.a, duel.b, f1, f2)
                  ELSE clan_challenge_between(duel.b, duel.a, f1, f2),
              0, FALSE)

\* HonourSystem.validate_hunt(predator, target) with the combatant `on` as
\* the target; the call changes neither combatant
ValidateHunt(on) ==
    /\ duel' = [duel EXCEPT !.hunt =
                   [target |-> on] @@ validate_hunt(IF on = "a" THEN duel.b ELSE duel.a,
                                                   duel[on])]
    /\ UNCHANGED <<honourVars, bossVars, runVars, learnerVars, fieldVars>>

NextCombat ==
    \/ \E on \in {"a", "b"} : ValidateHunt(on)
    \/ \E by \in {"a", "b"}, v \in Variances, critical \in BOOLEAN :
         ResolveCombat(by, v, critical)
    \/ \E by \in {"a", "b"}, f1 \in {80, 120}, f2 \in {80, 120} :
         ClanChallenge(by, f1, f2)

SpecCombat == InitCombat /\ [][NextCombat]_vars

(***************************************************************************)
(* SpecField: two combatants on the grid, any sequence of execute_action    *)
(* calls with a move or an attack on the other                              *)
(***************************************************************************)
\* the obstacle of the field: the cell east of the first combatant's start
FieldObstacles == {<<1, 0>>}

\* the first stands in the corner <<0, 0>>; the second next to it or three
\* cells away
FieldStarts == {<<0, 1>>, <<0, 3>>}

FieldFighters ==
    {NewCombatant("Predator", "Dek", 100, 50, 100, 0),
     NewCombatant("Predator", "Dek", 100, 5, 0, 0),
     [NewCombatant("QLearningPredator", "Dek", 100, 50, 0, 0) EXCEPT !.carrying_thia = TRUE],
     NewCombatant("Adversary", "Beast", 60, 0, 0, 0),
     NewCombatant("AdaptiveAdversary", "Beast", 60, 0, 0, 0),
     NewCombatant("Wildlife", "Creature", 30, 0, 0, 3)}

FieldOpponents ==
    {NewCombatant("Wildlife", "Prey", 10, 0, 0, 1),
     NewCombatant("Adversary", "Beast", 20, 0, 0, 0),
     NewCombatant("Predator", "Clan", 20, 50, 80, 0)}

InitField ==
    /\ HonourConstructed
    /\ BossConstructed(BossStart, 500, FieldObstacles)
    /\ RunParked
    /\ LearnerParked
    /\ \E a \in FieldFighters, b \in FieldOpponents : DuelConstructed(a, b)
    /\ \E pb \in FieldStarts : FieldConstructed(<<0, 0>>, pb)

Other(by) == IF by = "a" THEN "b" ELSE "a"

\* execute_action({'type': 'move', 'direction': direction}) on the combatant by
ExecuteMove(by, direction) ==
    /\ field.steps < MaxFieldSteps
    /\ duel[by].is_alive
    /\ duel[by].cls \in BossClasses \/ direction \in {"N", "S", "E", "W"}
    /\ LET m == execute_move(duel[by], field.pos[by], direction, obstacles)
       IN /\ duel' = [duel EXCEPT ![by] = m.c]
          /\ field' = [pos |-> [field.pos EXCEPT ![by] = m.pos],
                       steps |-> field.steps + 1,
                       last |-> [op |-> "move", by |-> by, direction |-> direction]]
    /\ UNCHANGED <<honourVars, bossVars, runVars, learnerVars>>

\* execute_action({'type': 'attack', 'target': the other}) on the combatant by
ExecuteAttack(by, variance, critical) ==
    /\ field.steps < MaxFieldSteps
    /\ duel[by].is_alive
    /\ duel[by].cls \in PredatorClasses \/ (variance = 100 /\ ~critical)
    /\ LET r == execute_attack(duel[by], duel[Other(by)], field.pos[by],
                               field.pos[Other(by)], variance, critical)
       IN duel' = [duel EXCEPT ![by] = r.attacker, ![Other(by)] = r.defender,
                               !.last = [success |-> r.result.success,
                                         reason |-> r.result.reason,
                                         damage |-> r.result.damage,
                                         call |-> r.result.call, by |-> by,
                                         variance |-> variance, critical |-> critical]]
    /\ field' = [field EXCEPT !.steps = @ + 1,
                              !.last = [op |-> "attack", by |-> by, direction |-> "-"]]
    /\ UNCHANGED <<honourVars, bossVars, runVars, learnerVars>>

NextField ==
    \/ \E by \in {"a", "b"}, d \in {"N", "S", "E", "W", "NE", "SW"} : ExecuteMove(by, d)
    \/ \E by \in {"a", "b"}, v \in {80, 100}, critical \in BOOLEAN :
         ExecuteAttack(by, v, critical)

SpecField == InitField /\ [][NextField]_vars

(***************************************************************************)
(* SpecRun: main.py -- run and run_turn over the roster                      *)
(***************************************************************************)
World == [agents |-> agents, boss |-> boss]

\* the names on the grid whose class is in classes
OnGrid(classes) ==
    {roster[i] : i \in 1..Len(roster)} \cap {n \in DOMAIN agents : agents[n].cls \in classes}

\* final_damage of a Predator's strike, at the ends of its range: against the
\* boss int(20 * 0.85) * 0.8 up to int(35 * 0.85) * 1.2 * 1.5, against the
\* others 20 * 0.8 up to 35 * 1.2 * 1.5
StrikeDamages(defender) == IF defender = "Beast" THEN {13, 51} ELSE {16, 63}

\* the weather types trigger_random_weather draws in the model, and the
\* duration it draws (random.randint(10, 30))
WeatherTypes == {"heat"}

WeatherDuration == 10

\* the loop of run: `while self.running and self.turn < max_turns`
run_condition_ignoring_running(r, t, mt) == t < mt

run_condition(r, t, mt) == r /\ t < mt

\* the loop of run_turn goes on to the next entry of its copy of the roster
NextIndexSkipping(i) == i + 2

NextIndex(i) == i + 1

\* run enters run_turn: turn += 1, and the loop starts over a copy of Grid.agents
StartTurn ==
    /\ loop.phase = "idle"
    /\ run_condition(running, turn, max_turns)
    /\ turn' = turn + 1
    /\ loop' = [loop EXCEPT !.phase = "agents", !.snapshot = roster,
                            !.idx = 1, !.log = << >>]
    /\ UNCHANGED <<agents, roster, running, max_turns, hazards, bossVars, honourVars, learnerVars, duelVars, fieldVars>>

\* the loop is at agent n of its copy
LoopAt(n) ==
    /\ loop.phase = "agents"
    /\ loop.idx <= Len(loop.snapshot)
    /\ loop.snapshot[loop.idx] = n

\* `if not agent.is_alive: continue`
AgentSkipped ==
    \E n \in DOMAIN agents \cup {"Beast"} :
        /\ LoopAt(n)
        /\ ~is_alive(World, n)
        /\ loop' = [loop EXCEPT !.idx = NextIndex(@),
                                !.log = Append(@, [agent |-> n, acted |-> FALSE,
                                                   type |-> "none", stamina |-> 0,
                                                   alive |-> FALSE])]
        /\ UNCHANGED <<agents, roster, turn, running, max_turns, hazards,
                       bossVars, honourVars, learnerVars, duelVars, fieldVars>>

\* the world in which the loop body calls update_q_value: the one left by
\* execute_action, check_hazards coming after the call
hook_world_after_hazards(executed, checked) == checked

hook_world(executed, checked) == executed

\* the actions after which an agent stands on another cell than before
MovingTypes == {"move", "flee"}

\* the rest of the loop body once agent n has decided on an action of the
\* given type and executed it (world w): update_q_value changes nothing here,
\* check_hazards springs the traps at the agent's position, if any: on the
\* cell it has moved to, or on the cell it was constructed on.  The log
\* keeps the type, the agent's stamina before the action and its alive flag
\* at the place of the update_q_value call.
AfterAction(w, n, type) ==
    \E trap \in {NoTrap} \cup {t \in hazards.traps : n \in t.reach} :
        \E w2 \in {check_hazards(w, n, trap)} :
            /\ trap # NoTrap => type \in MovingTypes \/ turn = 1
            /\ agents' = w2.agents
            /\ boss' = w2.boss
            /\ hazards' = [hazards EXCEPT !.traps = @ \ {trap}]
            /\ loop' = [loop EXCEPT !.idx = NextIndex(@),
                                    !.log = Append(@,
                                        [agent |-> n, acted |-> TRUE, type |-> type,
                                         stamina |-> IF n = "Beast" THEN 0
                                                     ELSE agents[n].stamina,
                                         alive |-> is_alive(hook_world(w, w2), n)])]
            /\ UNCHANGED <<roster, turn, running, max_turns, boss_obs, obstacles,
                           honourVars, learnerVars, duelVars, fieldVars>>

\* the classes Adversary._find_nearest_predator and
\* Wildlife._find_nearby_predator look for: the class name must be 'Predator'
PreyClassesWithLearner == {"Predator", "QLearningPredator"}

PreyClasses == {"Predator"}

\* the living Wildlife and bosses on the grid (_find_nearby_threats)
Threats ==
    {n \in OnGrid({"Wildlife"}) : agents[n].is_alive}
    \cup {n \in {"Beast"} : boss.is_alive /\ \E i \in 1..Len(roster) : roster[i] = n}

\* Dek's iteration: decide_action, execute_action
DekStep ==
    /\ LoopAt("Dek")
    /\ agents["Dek"].is_alive
    /\ \E adj \in {"none"} \cup Threats, choice \in {"rest", "move", "attack"} :
         /\ agents["Dek"].cls = "Predator" => choice = "rest"
         /\ \E action \in {IF agents["Dek"].cls = "Predator"
                           THEN predator_decide(agents["Dek"], adj, FALSE)
                           ELSE qlearning_decide(agents["Dek"], choice, adj)} :
              \E damage \in StrikeDamages(action.target) :
                  AfterAction(predator_execute(World, "Dek", action, roster,
                                               damage, FALSE), "Dek", action.type)

\* Thia's iteration: scan_area changes nothing that is modelled
ThiaStep ==
    /\ LoopAt("Thia")
    /\ agents["Thia"].is_alive
    /\ synthetic_decide(agents["Thia"]).type = "scan_area"
    /\ AfterAction(World, "Thia", "scan_area")

\* the boss's iteration.  Its nearest Predator (_find_nearest_predator: any
\* agent of class Predator on the grid, living or not) stands next to it.
BeastStep ==
    /\ LoopAt("Beast")
    /\ boss.is_alive
    /\ \E tgt \in (IF OnGrid(PreyClasses) = {} THEN {"none"} ELSE OnGrid(PreyClasses)) :
         LET pos == IF tgt = "none" THEN NoPos ELSE NextTo(boss.position)
         IN \E r \in {adaptive_decide(boss, pos, FALSE, 0)} :
              LET b1 == adversary_execute(r.boss, r.action, pos, obstacles)
                  w0 == [agents |-> agents, boss |-> b1]
              IN AfterAction(IF AttackLands(r.boss, r.action, pos)
                             THEN take_damage(w0, tgt, r.boss.attack_power)
                             ELSE w0,
                             "Beast", r.action.type)

\* the creature's iteration
CreatureStep ==
    /\ LoopAt("Creature")
    /\ agents["Creature"].is_alive
    /\ \E near \in {"none"} \cup OnGrid(PreyClasses), roll \in BOOLEAN :
         /\ roll => near # "none"
         /\ \E action \in {wildlife_decide(agents["Creature"], near, roll)} :
              AfterAction(wildlife_execute(World, "Creature", action),
                          "Creature", action.type)

\* the clan member's iteration
ClanStep ==
    /\ LoopAt("Clan")
    /\ agents["Clan"].is_alive
    /\ \E near_dek \in BOOLEAN, challenger_wins \in BOOLEAN :
         /\ challenger_wins => near_dek
         /\ \E action \in {predator_decide(agents["Clan"], "none", near_dek)} :
              AfterAction(predator_execute(World, "Clan", action, roster, 0,
                                           challenger_wins),
                          "Clan", action.type)

\* the end of run_turn: Grid.update removes the dead from the roster, the
\* weather is updated and may be triggered, the end conditions are checked
EndTurn ==
    /\ loop.phase = "agents"
    /\ loop.idx > Len(loop.snapshot)
    /\ \E drawn \in {"none"} \cup WeatherTypes :
         LET living == grid_update(World, roster)
             u == update_weather(agents, living, hazards.weather)
             res == IF ~u.agents["Dek"].is_alive THEN "False"
                    ELSE IF ~boss.is_alive THEN "True"
                    ELSE "None"
         IN /\ roster' = living
            /\ agents' = u.agents
            /\ hazards' = [hazards EXCEPT
                             !.weather = trigger_random_weather(u.weather, drawn,
                                                                WeatherDuration)]
            /\ running' = IF res = "None" THEN running ELSE FALSE
            /\ loop' = [loop EXCEPT !.phase = "idle", !.result = res,
                                    !.snapshot = << >>, !.idx = 0, !.log = << >>]
    /\ UNCHANGED <<turn, max_turns, bossVars, honourVars, learnerVars, duelVars, fieldVars>>

\* run leaves its loop and returns its results
Return ==
    /\ loop.phase = "idle"
    /\ ~run_condition(running, turn, max_turns)
    /\ loop' = [loop EXCEPT
                  !.phase = "returned",
                  !.returned = [turns |-> turn,
                                dek_alive |-> agents["Dek"].is_alive,
                                adversary_alive |-> boss.is_alive,
                                victory |-> ~boss.is_alive]]
    /\ UNCHANGED <<agents, roster, turn, running, max_turns, hazards,
                   bossVars, honourVars, learnerVars, duelVars, fieldVars>>

\* the runs of the model: use_qlearning over a grid without traps, a Predator
\* as Dek over a grid with a pit, and a short run of the latter with a clan
\* member
RunConfigurations ==
    {[dek |-> "QLearningPredator", clan |-> FALSE, traps |-> {},
      max_turns |-> MaxTurns],
     [dek |-> "Predator", clan |-> FALSE, traps |-> {Pits(1, Everyone)},
      max_turns |-> MaxTurns],
     [dek |-> "Predator", clan |-> TRUE, traps |-> {Pits(1, Everyone)},
      max_turns |-> ClanTurns]}

InitRun ==
    /\ HonourConstructed
    /\ BossConstructed(BossStart, AdversaryInitialHealth, {})
    /\ \E c \in RunConfigurations : RunConstructed(c.dek, c.clan, c.traps, c.max_turns)
    /\ LearnerParked
    /\ DuelParked
    /\ FieldParked

NextRun ==
    \/ StartTurn
    \/ AgentSkipped
    \/ DekStep
    \/ ThiaStep
    \/ BeastStep
    \/ CreatureStep
    \/ ClanStep
    \/ EndTurn
    \/ Return

SpecRun == InitRun /\ [][NextRun]_vars

SpecRunFair == SpecRun /\ WF_vars(NextRun)

\* SpecTrappedRun: a run of the learner over a grid on which
\* generate_random_hazards has stacked LearnerPits pits on one cell of the
\* learner's way and BeastPits pits on one cell of the boss's patrol route
InitTrappedRun ==
    /\ HonourConstructed
    /\ BossConstructed(BossStart, AdversaryInitialHealth, {})
    /\ RunConstructed("QLearningPredator", FALSE,
                      {Pits(LearnerPits, {"Dek"}), Pits(BeastPits, {"Beast"})},
                      MaxTurns)
    /\ LearnerParked
    /\ DuelParked
    /\ FieldParked

NextTrappedRun ==
    \/ StartTurn
    \/ AgentSkipped
    \/ DekStep
    \/ ThiaStep
    \/ BeastStep
    \/ CreatureStep
    \/ EndTurn
    \/ Return

SpecTrappedRun == InitTrappedRun /\ [][NextTrappedRun]_vars

(***************************************************************************)
(* The claims                                                               *)
(***************************************************************************)
\* C1: after any sequence of update_honour calls the combatant's rank label
\* (clan_rank) is the highest rank of RANKS whose threshold is <= its honour.
C1_RankIsHighestWithinHonour == clan_rank = get_rank(honour)

\* C2: starting from honour >= 0, honour is >= 0 after every update_honour call,
\* whatever the action kind (known or unknown) and the context.
C2_HonourNeverNegative == honour >= 0

\* a call whose delta would have taken honour below zero has been applied
C2_FloorApplied ==
    /\ hon_last.change < 0
    /\ hon_last.old + hon_last.change < 0
    /\ honour = 0

\* C3: in every state of a run each entity's health is within [0, max_health]
\* and each combatant's stamina within [0, max_stamina].
C3_HealthAndStaminaClamped ==
    /\ 0 <= boss.health /\ boss.health <= boss.max_health
    /\ \A n \in DOMAIN agents :
         /\ 0 <= agents[n].health /\ agents[n].health <= agents[n].max_health
         /\ 0 <= agents[n].stamina /\ agents[n].stamina <= agents[n].max_stamina

\* Dek has moved with less stamina than the move costs and stands at 0, and the
\* living boss has been healed by its adaptive armour
C3_FloorAndArmourHeal ==
    /\ \E i \in 1..Len(loop.log) :
         /\ loop.log[i].agent = "Dek" /\ loop.log[i].type = "move"
         /\ loop.log[i].stamina < 2
    /\ agents["Dek"].stamina = 0
    /\ boss.is_alive /\ boss.adaptive_armor
    /\ boss.health + boss.total_damage_received > boss.max_health

\* the loop's last iteration called decide_action and execute_action of n
Called(n) ==
    /\ Len(loop'.log) = Len(loop.log) + 1
    /\ loop'.log[Len(loop'.log)].agent = n
    /\ loop'.log[Len(loop'.log)].acted

\* C4: an entity whose health is 0 is not alive, an entity that is not alive
\* stays so, and run_turn calls decide_action and execute_action only of an
\* entity that is alive (hence with health above 0) at that point.
C4_DeadNeverActs ==
    /\ [](\A n \in DOMAIN agents \cup {"Beast"} :
            health_of(World, n) = 0 => ~is_alive(World, n))
    /\ [][\A n \in DOMAIN agents \cup {"Beast"} :
            /\ ~is_alive(World, n) => ~is_alive([agents |-> agents', boss |-> boss'], n)
            /\ Called(n) => is_alive(World, n) /\ health_of(World, n) > 0]_vars

\* an entity killed in an earlier tick is off the roster and the later tick's
\* loop has finished without calling it
C4_DeadLeftOut ==
    /\ loop.phase = "agents"
    /\ loop.idx > Len(loop.snapshot)
    /\ turn >= 2
    /\ \E n \in DOMAIN agents \cup {"Beast"} :
         /\ health_of(World, n) = 0 /\ ~is_alive(World, n)
         /\ \A i \in 1..Len(loop.log) : loop.log[i].agent # n

\* C5: the loop of a tick goes over the roster as it was at the start of the
\* tick, one entry after the other; the entity of an entry acts (one
\* decide-then-execute) exactly when it is alive at that point, and the tick
\* ends only when every entry has been gone over.
C5_SnapshotIteratedInOrder ==
    /\ [](loop.phase = "agents" =>
            /\ loop.snapshot = roster
            /\ Len(loop.log) = loop.idx - 1
            /\ loop.idx <= Len(loop.snapshot) + 1
            /\ \A i \in 1..Len(loop.log) : loop.log[i].agent = loop.snapshot[i]
            /\ \A i, j \in 1..Len(loop.snapshot) :
                 loop.snapshot[i] = loop.snapshot[j] => i = j)
    /\ [][/\ turn' = turn + 1 => loop'.snapshot = roster /\ loop'.log = << >>
          /\ (loop.phase = "agents" /\ loop'.phase = "agents" /\ loop' # loop) =>
                /\ loop'.snapshot = loop.snapshot
                /\ loop'.log = Append(loop.log, loop'.log[Len(loop'.log)])
                /\ loop'.log[Len(loop'.log)].acted
                       = is_alive(World, loop.snapshot[loop.idx])
          /\ (loop.phase = "agents" /\ loop'.phase # "agents") =>
                Len(loop.log) = Len(loop.snapshot)]_vars

\* a tick's loop has finished: an entity killed earlier in the tick was passed
\* over and an entity after it has acted
C5_KilledPassedOver ==
    /\ loop.phase = "agents"
    /\ Len(loop.log) = Len(loop.snapshot)
    /\ \E i, j \in 1..Len(loop.log) :
         i < j /\ ~loop.log[i].acted /\ loop.log[j].acted

\* C6: run(max_turns) returns, after at most max_turns ticks; between ticks
\* it is still running only if Dek and the boss are both alive, and it has
\* stopped only if one of them is not; the last tick returned False (defeat)
\* when Dek is dead, True (victory) when only the boss is, and None otherwise,
\* in which case run returns only at max_turns; once running is false no
\* further tick is executed.
C6_RunTerminates ==
    /\ [](turn <= max_turns)
    /\ [](loop.phase \in {"idle", "returned"} =>
            /\ running = (agents["Dek"].is_alive /\ boss.is_alive)
            /\ loop.result = "False" <=> ~agents["Dek"].is_alive
            /\ loop.result = "True" <=> (agents["Dek"].is_alive /\ ~boss.is_alive))
    /\ [](loop.phase = "returned" =>
            /\ loop.returned.turns = turn
            /\ running => turn = max_turns)
    /\ [][~running \/ loop.phase = "returned" =>
            turn' = turn /\ agents' = agents /\ boss' = boss /\ running' = running]_vars
    /\ <>(loop.phase = "returned")

\* run has returned before max_turns because Dek died
C6_StoppedAtDefeat ==
    /\ loop.phase = "returned"
    /\ loop.result = "False"
    /\ ~agents["Dek"].is_alive
    /\ loop.returned.turns < max_turns

\* C7: ability unlocks of the adaptive boss are monotonic: once one of
\* berserker_rage, predictive_movement, area_denial, adaptive_armor is true it
\* is true in every later state, whatever turns and damage events follow.
C7_UnlocksMonotonic ==
    [][/\ boss.berserker_rage => boss'.berserker_rage
       /\ boss.predictive_movement => boss'.predictive_movement
       /\ boss.area_denial => boss'.area_denial
       /\ boss.adaptive_armor => boss'.adaptive_armor]_vars

\* all four abilities are unlocked and the boss has been attacked again since
C7_AllUnlockedAndAttackedAgain ==
    /\ boss.berserker_rage /\ boss.predictive_movement
    /\ boss.area_denial /\ boss.adaptive_armor
    /\ boss.times_attacked > 20

\* C8: Berserker does not compound: while consecutive turns take the Berserker
\* branch, attack_power is at most 1.5 times its value before the first of them.
C8_BerserkerAppliedOnce ==
    boss_obs.action.branch = "berserker"
        => 2 * boss.attack_power <= 3 * boss_obs.berserk_base

\* C9: after the Area Denial unlock the threat radius is at least the radius
\* just before the unlock plus 3, whatever damage events follow.
C9_AreaDenialPermanent ==
    boss.area_denial => boss.threat_radius >= boss_obs.denial_floor

\* the last 10 recorded positions are all at distance 5 from pos
AllAtDistanceFive(pos, h) ==
    /\ Len(h) >= 10
    /\ \A i \in (Len(h) - 9)..Len(h) : manhattan_distance(pos, h[i]) = 5

\* the intercept move of Counter-Circle: toward the opponent's position plus
\* the vector from the 3rd-to-last to the most recent recorded position
InterceptMove(pos, target, h) ==
    MoveAction(
        calculate_direction(pos,
            <<target[1] + (h[Len(h)][1] - h[Len(h) - 2][1]),
              target[2] + (h[Len(h)][2] - h[Len(h) - 2][2])>>),
        "counter_circle")

\* C10: a decision taken with the last 10 recorded opponent positions all at
\* distance 5 from the boss adds one to the circling counter, and is Counter-Circle
\* (the intercept move) once the counter has reached 3; no decision is
\* Counter-Circle while the counter is below 3.
C10_CounterCircleAfterThree ==
    [][boss_obs'.turns = boss_obs.turns + 1 =>
        /\ AllAtDistanceFive(boss.position, boss'.predator_position_history) =>
              /\ boss'.circle_strategy = boss.circle_strategy + 1
              /\ boss'.circle_strategy >= 3 =>
                    boss_obs'.action = InterceptMove(boss.position, boss_obs'.target,
                                                     boss'.predator_position_history)
        /\ boss_obs'.action.branch = "counter_circle" => boss'.circle_strategy >= 3]_vars

\* Counter-Circle has been entered on the third detection, with the opponent
\* seen at two different cells at distance 5 over the last three turns
C10_CounterCircleEntered ==
    LET h == boss.predator_position_history
    IN /\ boss_obs.action.branch = "counter_circle"
       /\ boss.circle_strategy = 3
       /\ AllAtDistanceFive(boss.position, h)
       /\ h[Len(h)] # h[Len(h) - 2]

\* at least 3 of the last 5 exchanges were followed by the opponent retreating
RetreatsSeen(r) ==
    /\ Len(r) >= 5
    /\ Cardinality({i \in Len(r) - 4..Len(r) : r[i] = "yes"}) >= 3

\* C11: in a decision of the boss that is not a Counter-Circle one, when the
\* opponent retreated right after at least 3 of the last 5 recorded exchanges,
\* the hit-and-run counter goes up by one, and once it has reached 2 the
\* decision is the Counter-HitRun one: the threat radius is raised by 2 (at
\* most to 15) and the boss attacks within distance 2 or moves toward the
\* opponent, diagonally when both axes of separation are non-zero.
C11_HitAndRunCountered ==
    [][(/\ boss_obs'.turns = boss_obs.turns + 1
        /\ boss_obs'.action.branch # "counter_circle"
        /\ RetreatsSeen(boss_obs'.retreats))
       => /\ boss'.hit_and_run = boss.hit_and_run + 1
          /\ boss'.hit_and_run >= 2
               => /\ boss_obs'.action.branch = "counter_hit_run"
                  /\ boss'.threat_radius
                       = Min(15, update_combat_intelligence(boss).threat_radius + 2)
                  /\ boss_obs'.action.type = "move"
                       => boss_obs'.action.direction
                            = calculate_aggressive_direction(boss.position,
                                                             boss_obs'.target)]_vars


\* C12: every row of the value table has as its action keys exactly the
\* actions that were legal when its state key was first visited (the row is
\* seeded with them at 0 at that visit); no other action key is ever added.
C12_RowsKeepFirstVisitActions ==
    \A k \in DOMAIN learner.q_table :
        DOMAIN learner.q_table[k] = learner_obs.first_legal[k]

\* the highest estimate of a row
HighestEstimate(row) ==
    CHOOSE v \in {row[b] : b \in DOMAIN row} : \A b \in DOMAIN row : v >= row[b]

\* C13: an update_q_value call with a recorded (state, action) sets that
\* estimate to old + 0.1 * (reward + 0.9 * maxFuture - old), maxFuture being
\* the highest estimate the table holds for the new state (0 for a state
\* seen for the first time), and leaves every other estimate as it was; with
\* old = 0, reward = 10 and maxFuture = 0 the new estimate is 1.0.
C13_TemporalDifferenceUpdate ==
    [][(/\ learner_obs'.last.call = "update"
        /\ learner_obs'.calls = learner_obs.calls + 1
        /\ learner.last_state # NoKey)
       => LET st == learner.last_state
              a == learner.last_action
              key == learner_obs'.last.key
              old == IF a \in DOMAIN learner.q_table[st]
                     THEN learner.q_table[st][a] ELSE 0
              future == IF key \in DOMAIN learner.q_table
                        THEN HighestEstimate(learner.q_table[key]) ELSE 0
              reward == learner'.total_rewards - learner.total_rewards
              new == learner'.q_table[st][a]
          IN /\ 100 * new = 90 * old + 10 * reward + 9 * future
             /\ (old = 0 /\ reward = 10000000 /\ future = 0) => new = 1000000
             /\ \A k \in DOMAIN learner.q_table :
                  \A b \in DOMAIN learner.q_table[k] :
                      <<k, b>> # <<st, a>>
                          => learner'.q_table[k][b] = learner.q_table[k][b]]_vars

\* C13 witness: an estimate of 1.99, reached by a second update (reward 10) of
\* an estimate of 1.0 whose own row is the new state's
C13_SecondUpdateSeen ==
    /\ learner_obs.last.call = "update"
    /\ learner.last_state # NoKey
    /\ learner.last_action \in DOMAIN learner.q_table[learner.last_state]
    /\ learner.q_table[learner.last_state][learner.last_action] = 1990000
    /\ learner.total_rewards = 20000000

\* e0 * 0.995^n without the floor
RECURSIVE Decayed(_, _)
Decayed(e0, n) ==
    IF n = 0 THEN e0 ELSE Decayed(e0, n - 1) - Decayed(e0, n - 1) \div 200

\* C14: after N >= 1 calls of decay_epsilon from the rate e0 the rate is
\* max(0.05, e0 * 0.995^N): it is never below 0.05 once a decay has been
\* applied, and from then on no decay raises it.
C14_DecayLaw ==
    /\ [](learner_obs.decays >= 1
            => /\ learner.epsilon
                    = Max(50000000, Decayed(learner_obs.e0, learner_obs.decays))
               /\ learner.epsilon >= 50000000)
    /\ [][(learner_obs.decays >= 1 /\ learner_obs'.decays = learner_obs.decays + 1)
            => learner'.epsilon <= learner.epsilon]_vars

\* C14 witness: the rate has come down from above the floor and is held at it
C14_FloorReached ==
    /\ learner_obs.e0 > 50000000
    /\ learner_obs.decays >= 2
    /\ learner.epsilon = 50000000

\* the attacker and the defender of the last CombatSystem call, and of the
\* call a step makes
Attacker(d) == IF d.last.by = "a" THEN d.a ELSE d.b

Defender(d) == IF d.last.by = "a" THEN d.b ELSE d.a

AttackerBefore == IF duel'.last.by = "a" THEN duel.a ELSE duel.b

DefenderBefore == IF duel'.last.by = "a" THEN duel.b ELSE duel.a

CombatStep == duel'.rounds = duel.rounds + 1 /\ duel'.last.call = "combat"

ChallengeStep == duel'.rounds = duel.rounds + 1 /\ duel'.last.call = "challenge"

\* C15: every successful resolve_combat deals a damage of at least 1 and
\* takes at least 1 off the defender's health, whoever attacks.
C15_DamageAtLeastOne ==
    [][(CombatStep /\ duel'.last.success)
       => /\ duel'.last.damage >= 1
          /\ Defender(duel').health <= DefenderBefore.health - 1]_vars

\* C15 witness: a creature of threat level 0 has struck, for the floor of 1
C15_TierZeroStrike ==
    /\ duel.last.call = "combat" /\ duel.last.success
    /\ Attacker(duel).cls = "Wildlife" /\ Attacker(duel).threat_level = 0
    /\ duel.last.damage = 1

\* C16: resolve_combat by an attacker that tracks stamina and has less than
\* 10 fails as exhausted, and resolve_combat with a combatant that is not
\* alive fails; neither changes any field of either combatant.
C16_FailureChangesNothing ==
    [][CombatStep
       => /\ (AttackerBefore.cls \in {"Predator", "QLearningPredator"}
              /\ AttackerBefore.stamina < 10
              /\ AttackerBefore.is_alive /\ DefenderBefore.is_alive)
             => /\ ~duel'.last.success /\ duel'.last.reason = "exhausted"
                /\ duel'.a = duel.a /\ duel'.b = duel.b
          /\ (~AttackerBefore.is_alive \/ ~DefenderBefore.is_alive)
             => /\ ~duel'.last.success
                /\ duel'.a = duel.a /\ duel'.b = duel.b]_vars

\* C16 witness: an exhausted Predator's attack on a living opponent has failed
C16_ExhaustedRefused ==
    /\ duel.last.call = "combat" /\ duel.last.reason = "exhausted"
    /\ Attacker(duel).stamina < 10 /\ Attacker(duel).is_alive
    /\ Defender(duel).is_alive

\* the scenario of C17: a Predator or QLearningPredator of honour 100 and
\* stamina 50, not carrying Thia, attacks a living boss
BossStruckByHonoured ==
    /\ CombatStep
    /\ AttackerBefore.cls \in {"Predator", "QLearningPredator"}
    /\ AttackerBefore.is_alive /\ AttackerBefore.honour = 100
    /\ AttackerBefore.stamina = 50 /\ ~AttackerBefore.carrying_thia
    /\ DefenderBefore.cls \in {"Adversary", "AdaptiveAdversary"}
    /\ DefenderBefore.is_alive

\* C17 as stated: in that scenario the damage before jitter (variance 1.0, no
\* critical hit) is (35 + aggression * 2) * 0.85, the damage dealt is at
\* least 1 and the attacker's stamina afterwards is 40.
C17_BossFormulaForLearner ==
    [][BossStruckByHonoured
       => /\ (duel'.last.variance = 100 /\ ~duel'.last.critical)
             => duel'.last.damage
                  = (85 * (35 + DefenderBefore.aggression_level * 2)) \div 100
          /\ duel'.last.damage >= 1
          /\ Attacker(duel').stamina = 40]_vars

\* C17 amended: in that scenario the damage before jitter is
\* int((20 + min(15, 100 // 10)) * 0.85) = 25, the damage dealt is at least
\* 1 and the attacker's stamina afterwards is 40.
C17_LearnerFormula ==
    [][BossStruckByHonoured
       => /\ duel'.last.success
          /\ (duel'.last.variance = 100 /\ ~duel'.last.critical)
             => duel'.last.damage = 25
          /\ duel'.last.damage >= 1
          /\ Attacker(duel').stamina = 40]_vars

\* C17 witness: the scenario's strike at variance 1.0 has dealt 25
C17_StruckForTwentyFive ==
    /\ duel.last.call = "combat" /\ duel.last.success /\ duel.rounds = 1
    /\ duel.last.variance = 100 /\ ~duel.last.critical
    /\ Attacker(duel).honour = 100 /\ Attacker(duel).stamina = 40
    /\ Defender(duel).cls \in {"Adversary", "AdaptiveAdversary"}
    /\ duel.last.damage = 25

\* a Predator's or QLearningPredator's attack that kills a creature
WildlifeKilled ==
    /\ CombatStep /\ duel'.last.success
    /\ AttackerBefore.cls \in {"Predator", "QLearningPredator"}
    /\ DefenderBefore.cls = "Wildlife"
    /\ ~Defender(duel').is_alive

\* C18: a kill of a creature of threat level >= 1 appends exactly one trophy
\* (and adds 15 + 1 * 5 = 20 honour at threat level 1); a kill of one of
\* threat level < 1 appends none and applies the delta of -30.
C18_TrophyForWorthyKill ==
    [][WildlifeKilled
       => IF DefenderBefore.threat_level >= 1
          THEN /\ Attacker(duel').trophies
                    = Append(AttackerBefore.trophies, DefenderBefore.name)
               /\ DefenderBefore.threat_level = 1
                    => Attacker(duel').honour = AttackerBefore.honour + 20
          ELSE /\ Attacker(duel').trophies = AttackerBefore.trophies
               /\ Attacker(duel').honour = Max(0, AttackerBefore.honour - 30)]_vars

\* C18 witness: a Predator of honour 100 has killed a creature of threat level 1
C18_TierOneKilled ==
    /\ duel.last.call = "combat" /\ duel.last.success /\ duel.rounds = 1
    /\ Defender(duel).cls = "Wildlife" /\ ~Defender(duel).is_alive
    /\ Defender(duel).threat_level = 1
    /\ Attacker(duel).trophies = <<"Prey">>
    /\ Attacker(duel).honour = 120

\* C19 as stated: the honour for killing a creature of threat level t >= 1
\* is 15 + 5 * (t - 1): +15, +20, +25 at levels 1, 2, 3.
C19_FivePerTierAboveOne ==
    [][(WildlifeKilled /\ DefenderBefore.threat_level >= 1)
       => Attacker(duel').honour
            = AttackerBefore.honour + 15 + 5 * (DefenderBefore.threat_level - 1)]_vars

\* C19 amended: the honour for killing a creature of threat level t >= 1 is
\* 15 + 5 * t: +20, +25, +30 at levels 1, 2, 3.
C19_FivePerTier ==
    [][(WildlifeKilled /\ DefenderBefore.threat_level >= 1)
       => Attacker(duel').honour - AttackerBefore.honour
            = CASE DefenderBefore.threat_level = 1 -> 20
                [] DefenderBefore.threat_level = 2 -> 25
                [] DefenderBefore.threat_level = 3 -> 30]_vars

\* C19 witness: a Predator of honour 0 has killed a creature of threat level 3
C19_TierThreeKilled ==
    /\ duel.last.call = "combat" /\ duel.last.success /\ duel.rounds = 1
    /\ Defender(duel).cls = "Wildlife" /\ ~Defender(duel).is_alive
    /\ Defender(duel).threat_level = 3
    /\ Attacker(duel).honour = 30

\* C20: in a clan challenge the winner gains 15 and the loser loses 5,
\* each times 1.5 (int(15 * 1.5) = 22, int(-5 * 1.5) = -7) when its
\* opponent's honour exceeds 70.
C20_ChallengeAmplified ==
    [][(ChallengeStep /\ duel'.last.success)
       => \A me \in {"a", "b"} :
            LET before == duel[me]
                other == IF me = "a" THEN duel.b ELSE duel.a
                won == (duel'.last.reason = "challenger") = (duel'.last.by = me)
                base == IF won THEN 15 ELSE -5
                delta == IF other.honour > 70
                         THEN (IF won THEN 22 ELSE -7) ELSE base
            IN duel'[me].honour = Max(0, before.honour + delta)]_vars

\* C21: validate_hunt reports the target honourable exactly when it is a
\* boss (at any health) or a creature of threat level >= 1 with health at
\* least 20% of its maximum, and reports at least one violation otherwise.
C21_HonourableExactly ==
    [][(duel'.hunt # duel.hunt)
       => LET target == duel[duel'.hunt.target]
              worthy == \/ target.cls \in BossClasses
                        \/ /\ target.cls = "Wildlife" /\ target.threat_level >= 1
                           /\ 5 * target.health >= target.max_health
          IN /\ duel'.hunt.honourable = worthy
             /\ ~worthy => Len(duel'.hunt.violations) >= 1]_vars

\* C22: a clan challenge between two living Predators leaves both alive,
\* takes exactly 15 health off the loser and none off the winner.
C22_ChallengeNonLethal ==
    [][(ChallengeStep /\ duel'.last.success /\ duel.a.is_alive /\ duel.b.is_alive)
       => LET a_wins == (duel'.last.reason = "challenger") = (duel'.last.by = "a")
          IN /\ duel'.a.is_alive /\ duel'.b.is_alive
             /\ duel'.a.health = duel.a.health - (IF a_wins THEN 0 ELSE 15)
             /\ duel'.b.health = duel.b.health - (IF a_wins THEN 15 ELSE 0)]_vars

\* the execute_action call a step makes, its combatant before and after
MoveStep == field'.steps = field.steps + 1 /\ field'.last.op = "move"

AttackStep == field'.steps = field.steps + 1 /\ field'.last.op = "attack"

\* C23: a Predator's move whose destination cell is occupied, an obstacle or
\* out of bounds leaves its position, stamina and health as they were.
C23_BlockedMoveChangesNothing ==
    [][(MoveStep /\ duel[field'.last.by].cls \in PredatorClasses)
       => LET by == field'.last.by
              to == MoveTarget(field.pos[by], field'.last.direction)
              blocked == \/ to = field.pos[Other(by)]
                         \/ to \in obstacles
                         \/ ~(to[1] \in 0..(GridW - 1) /\ to[2] \in 0..(GridH - 1))
          IN blocked => /\ field'.pos[by] = field.pos[by]
                        /\ duel'[by].stamina = duel[by].stamina
                        /\ duel'[by].health = duel[by].health]_vars

\* C24: an attack executed by a Predator, a boss or a creature while it is
\* exhausted, while the target is farther than distance 1, or on a target
\* that is already dead changes no field of the attacker or of the target.
C24_FailedAttackChangesNothing ==
    [][AttackStep
       => LET by == field'.last.by
              attacker == duel[by]
              target == duel[Other(by)]
              failing == \/ exhausted(attacker)
                         \/ manhattan_distance(field.pos.a, field.pos.b) > 1
                         \/ ~target.is_alive
          IN failing => duel'.a = duel.a /\ duel'.b = duel.b]_vars

\* C25: between two ticks Grid.agents holds living agents only, and an agent
\* leaves Grid.agents only at the end of a tick, after the loop over the
\* copy has finished.
C25_DeadPrunedAtTickEnd ==
    /\ [](loop.phase = "idle" => \A i \in 1..Len(roster) : is_alive(World, roster[i]))
    /\ [][roster' # roster
          => /\ loop.phase = "agents" /\ loop.idx > Len(loop.snapshot)
             /\ loop'.phase = "idle"]_vars

\* C25 witness: a tick has ended with an agent dead and off Grid.agents
C25_DeadRemoved ==
    /\ loop.phase = "idle" /\ turn >= 1
    /\ \E n \in DOMAIN agents :
         ~agents[n].is_alive /\ \A i \in 1..Len(roster) : roster[i] # n

\* a decision of the boss, and a damage event on it
BossTurnStep == boss_obs'.turns = boss_obs.turns + 1

BossDamageStep == boss_obs'.turns = boss_obs.turns /\ boss' # boss

\* C26: adaptive_armor is unlocked by the first decision that finds
\* total_damage_received >= 200 and by nothing else; a damage event on a boss
\* with adaptive_armor heals int(0.1 * the damage just taken), never above
\* max_health, and a damage event on a boss without it heals nothing.
C26_AdaptiveArmor ==
    [][/\ BossTurnStep
          => boss'.adaptive_armor
               = (boss.adaptive_armor \/ boss.total_damage_received >= 200)
       /\ BossDamageStep
          => LET actual == boss'.total_damage_received - boss.total_damage_received
             IN /\ boss'.adaptive_armor = boss.adaptive_armor
                /\ boss'.health <= boss.max_health
                /\ boss'.health
                     = IF boss.adaptive_armor
                       THEN Min(boss.max_health, boss.health - actual + actual \div 10)
                       ELSE boss.health - actual]_vars

\* C26 witness: the armour is unlocked and a damage event has healed
C26_ArmorHealed ==
    /\ boss.adaptive_armor
    /\ boss.total_damage_received >= 230
    /\ boss.health > boss.max_health - boss.total_damage_received

\* C27: chase_aggressiveness (in tenths) is 1.0 until a decision finds
\* times_attacked > 5; such a decision raises it by 0.1, to at most 1.5, when
\* defended_successfully / times_attacked > 0.7, lowers it by 0.1, to at
\* least 0.7, when the ratio is < 0.3, and leaves it otherwise; nothing else
\* changes it, and it lies in [0.7, 1.5].
C27_ChaseAggressiveness ==
    /\ [](boss.chase_aggressiveness \in 7..15)
    /\ [][LET c == boss.chase_aggressiveness
              d == boss.defended_successfully
              n == boss.times_attacked
          IN /\ ~BossTurnStep => boss'.chase_aggressiveness = c
             /\ (BossTurnStep /\ n <= 5) => (c = 10 /\ boss'.chase_aggressiveness = 10)
             /\ (BossTurnStep /\ n > 5)
                => boss'.chase_aggressiveness
                     = CASE 10 * d > 7 * n -> (IF c + 1 > 15 THEN 15 ELSE c + 1)
                         [] 10 * d < 3 * n -> (IF c - 1 < 7 THEN 7 ELSE c - 1)
                         [] OTHER -> c]_vars

\* C27 witness: the multiplier has been raised to its ceiling of 1.5 and a
\* further decision with a ratio above 0.7 has been taken
C27_CeilingHeld ==
    /\ boss.chase_aggressiveness = 15
    /\ boss_obs.turns >= 6
    /\ 10 * boss.defended_successfully > 7 * boss.times_attacked

\* C28: a decision taken by the epsilon-greedy branch selects a member of
\* the legal set _get_possible_actions gives for the learner at that call,
\* and that set contains 'rest'.
C28_GreedyChoiceIsLegal ==
    (learner_obs.last.call = "decide" /\ learner_obs.last.branch \in {"explore", "exploit"})
    => /\ learner.last_action \in learner_obs.last.possible
       /\ "rest" \in learner_obs.last.possible

\* C29: the forced-hunt override is taken only with honour < 40, stamina > 20
\* and a living creature within radius 5, and returns an attack on or a move
\* toward that creature; neither it nor the action 'hunt_wildlife' returns an
\* attack on or a move toward the boss.
C29_ForcedHuntTargetsWildlife ==
    LET l == learner_obs.last
    IN l.call = "decide"
       => /\ l.branch = "forced_hunt"
             => /\ l.me.honour < 40 /\ l.me.stamina > 20
                /\ l.env.wildlife >= 1 /\ l.env.wild_dist <= 5
                /\ l.action = (IF l.env.wild_dist <= 1
                               THEN SimAction("attack", "wildlife", "-")
                               ELSE SimAction("move", "none", "wildlife"))
          /\ learner.last_action = "hunt_wildlife"
             => l.action.target # "boss" /\ l.action.direction # "boss"

\* C30: the forced-engagement override is taken only with honour >= 50,
\* health > 50, stamina > 40 and a living boss; it returns an attack on the
\* boss at distance <= 1 and a move toward it otherwise, counts neither an
\* exploration nor an exploitation, and records 'engage_adversary' with the
\* current state key and honour.
C30_ForcedEngagement ==
    [][(learner_obs'.calls = learner_obs.calls + 1
        /\ learner_obs'.last.call = "decide"
        /\ learner_obs'.last.branch = "forced_engage")
       => LET l == learner_obs'.last
          IN /\ l.me.honour >= 50 /\ l.me.health > 50 /\ l.me.stamina > 40
             /\ l.env.boss_cls \in {"Adversary", "AdaptiveAdversary"} /\ l.env.boss_alive
             /\ l.action = (IF l.env.boss_dist <= 1
                            THEN SimAction("attack", "boss", "-")
                            ELSE SimAction("move", "none", "boss"))
             /\ learner'.exploration_count = learner.exploration_count
             /\ learner'.exploitation_count = learner.exploitation_count
             /\ learner'.last_action = "engage_adversary"
             /\ learner'.last_state = l.key
             /\ learner'.last_honour = l.me.honour
             /\ learner'.actions_taken = learner.actions_taken + 1]_vars

\* C30 witness: a forced engagement has returned an attack on the boss
C30_BossAttacked ==
    /\ learner_obs.last.call = "decide"
    /\ learner_obs.last.branch = "forced_engage"
    /\ learner_obs.last.action = SimAction("attack", "boss", "-")
    /\ learner.last_action = "engage_adversary"

\* C31: the state key of a decision is the five levels of health (low <= 40,
\* medium <= 70, high), stamina (low <= 30, medium <= 60, high), honour
\* (low < 30, blooded < 50, ready < 80, elite), creatures within radius 5
\* (none, some < 3, many) and boss distance (close <= 3, near <= 8, far),
\* the last being none only when no boss of either class is on the grid.
C31_StateKeyLevels ==
    LET l == learner_obs.last
        me == l.me
        n == IF l.env.wild_dist <= 5 THEN l.env.wildlife ELSE 0
        d == l.env.boss_dist
    IN l.call = "decide"
       => l.key = << IF me.health <= 40 THEN "low"
                     ELSE IF me.health <= 70 THEN "medium" ELSE "high",
                     IF me.stamina <= 30 THEN "low"
                     ELSE IF me.stamina <= 60 THEN "medium" ELSE "high",
                     IF me.honour < 30 THEN "low" ELSE IF me.honour < 50 THEN "blooded"
                     ELSE IF me.honour < 80 THEN "ready" ELSE "elite",
                     IF n = 0 THEN "none" ELSE IF n < 3 THEN "some" ELSE "many",
                     IF l.env.boss_cls \notin {"Adversary", "AdaptiveAdversary"} THEN "none"
                     ELSE IF d <= 3 THEN "close" ELSE IF d <= 8 THEN "near" ELSE "far" >>

\* C32: a decision of the boss that takes none of the counter-pattern or
\* ability branches follows the standard rule against the opponent it sees:
\* an attack at distance <= 1, otherwise a move toward the opponent with the
\* pattern 'chase' when distance <= threat_radius * chase_aggressiveness,
\* otherwise a move along the square route with the pattern 'patrol'; the
\* waypoint index is always an index of the four-waypoint route
StandardBranches == {"attack", "chase", "patrol"}

C32_StandardRule ==
    /\ [](boss.current_patrol_index \in 0..3)
    /\ [][(BossTurnStep /\ boss_obs'.action.branch \in StandardBranches
                        /\ boss_obs'.target # NoPos)
           => LET a == boss_obs'.action
                  t == boss_obs'.target
                  d == manhattan_distance(boss.position, t)
                  route == PatrolRoute(boss.territory_center)
              IN IF d <= 1
                 THEN a.type = "attack" /\ a.branch = "attack"
                 ELSE IF 10 * d <= boss'.threat_radius * boss'.chase_aggressiveness
                 THEN /\ a.type = "move" /\ a.branch = "chase"
                      /\ boss'.movement_pattern = "chase"
                      /\ manhattan_distance(MoveTarget(boss.position, a.direction), t) < d
                 ELSE /\ a.type = "move" /\ a.branch = "patrol"
                      /\ boss'.movement_pattern = "patrol"
                      /\ a.direction =
                           calculate_direction(boss.position,
                                               route[boss'.current_patrol_index + 1])]_vars

\* a patrol decision taken at the spawn cell while the opponent stands five
\* cells away, inside the threat radius of 5 but outside the radius scaled by a
\* chase_aggressiveness below 1.0
C32_PatrolInsideRadius ==
    /\ boss_obs.action.branch = "patrol"
    /\ boss_obs.target = <<6, 5>>
    /\ boss.position = <<2, 2>>
    /\ boss.threat_radius = 5
    /\ boss.chase_aggressiveness < 10
    /\ boss.movement_pattern = "patrol"

\* C33: the shaped reward is 10 * (reputation - recorded reputation)
\* + (1 if alive, else -200) + (-10 if health < 20, +2 if health > 70)
\* + (-2 if stamina < 10) + the boss-proximity term (boss alive at distance d:
\* with reputation >= 50 and health > 50, +15 when d < 5 and +8 when
\* 5 <= d < 10; otherwise -5 when d < 5) + 5 per trophy
\* + (-5 if the recorded action is 'rest' and stamina > 50)
C33_ShapedReward ==
    LET l == learner_obs.last
        me == l.me
        d == l.env.boss_dist
        survival == IF me.is_alive THEN 1 ELSE -200
        wellbeing == IF me.health < 20 THEN -10 ELSE IF me.health > 70 THEN 2 ELSE 0
        fatigue == IF me.stamina < 10 THEN -2 ELSE 0
        proximity ==
            IF ~l.env.boss_alive THEN 0
            ELSE IF me.honour >= 50 /\ me.health > 50
            THEN (IF d < 5 THEN 15 ELSE IF 5 <= d /\ d < 10 THEN 8 ELSE 0)
            ELSE (IF d < 5 THEN -5 ELSE 0)
        idle == IF learner.last_action = "rest" /\ me.stamina > 50 THEN -5 ELSE 0
    IN l.call = "reward"
         => l.reward = Micro * (10 * (me.honour - learner.last_honour) + survival
                                + wellbeing + fatigue + proximity
                                + 5 * me.trophies + idle)

\* a reward of 623 = 600 + 1 + 2 + 15 + 10 - 5: a whole, rested learner with
\* two trophies, sixty honour gained since its recorded 'rest', the living
\* boss three cells away
C33_RestedNearBoss ==
    /\ learner_obs.last.call = "reward"
    /\ learner.last_action = "rest"
    /\ learner.last_honour = 0
    /\ learner_obs.last.me.health = 100
    /\ learner_obs.last.me.honour = 60
    /\ learner_obs.last.env.boss_alive
    /\ learner_obs.last.env.boss_dist = 3
    /\ learner_obs.last.reward = 623 * Micro

\* C34: in a run whose Dek is a QLearningPredator neither the boss nor the
\* wildlife ever targets it: every decision of the boss is a patrol move, the
\* boss's history of opponent positions stays empty, and no iteration of the
\* boss or of a creature lowers the learner's health
LearnerRun == agents["Dek"].cls = "QLearningPredator"

C35_AliveIffHealthPositive == boss.is_alive <=> boss.health > 0

C37_AliveAtUpdateHook ==
    LearnerRun
      => \A i \in 1..Len(loop.log) :
            (loop.log[i].agent = "Dek" /\ loop.log[i].acted) => loop.log[i].alive

\* the learner has acted in this tick, was alive at its hook and has then been
\* killed by the pits of the cell it moved to
C37_KilledAfterTheHook ==
    /\ LearnerRun
    /\ ~agents["Dek"].is_alive
    /\ \E i \in 1..Len(loop.log) :
          /\ loop.log[i].agent = "Dek"
          /\ loop.log[i].acted
          /\ loop.log[i].alive
          /\ loop.log[i].type = "move"

\* C38: the results returned by run report victory = true exactly when the
\* last run_turn returned True, and never victory = true together with
\* dek_alive = false, also when Dek and the boss die in the same tick
C38_VictoryOnlyWhenWon ==
    loop.phase = "returned"
      => /\ loop.returned.victory <=> loop.result = "True"
         /\ ~(loop.returned.victory /\ ~loop.returned.dek_alive)

====
